---- MODULE Spec2Model ----
(***************************************************************************)
(* A model of ditto's scan and hash engine: the relational store (files,   *)
(* file_scan, scans), the hash queue and its atomic claim, the hash phase  *)
(* (producer, job channel, workers), the scan pipeline and the scan        *)
(* orchestrator.                                                           *)
(***************************************************************************)
EXTENDS Integers, Sequences, FiniteSets, TLC

\* ---------------------------------------------------------------- bounds
NDirs == 2       \* directories of a folder's tree (a chain below the root)
NWalkers == 2    \* config.numWalkers()
NWriters == 2    \* config.numWriters()
BatchSize == 2   \* config.batchSize()
FileChanCap == 1 \* pipelineChanCaps()
QueueCap == 1    \* capacity of scanQueue (scanQueueCap, scaled down)
MaxRequests == 3 \* start and continue requests the server receives
NFiles == 4      \* File identities (folder, path) the store can hold
NScans == 2      \* scan rows
NWorkers == 2    \* concurrent hash workers / claim callers
MaxResets == 1   \* per-file failures (ResetFileHashStatusToPending) followed
MaxFaults == 1   \* injected store / file-read failures and cancellations, together
JobChanCap == 1  \* capacity of the jobs channel (hashJobChannelCap, scaled down)
MaxCrashes == 1  \* times the process dies and is started again

Files == 1..NFiles
Scans == 1..NScans
Workers == 1..NWorkers
Dirs == 1..NDirs
Walkers == 1..NWalkers
Writers == 1..NWriters

\* The pipeline configurations explored (PipelineConfig / environment).
Configs == {[numWalkers |-> NWalkers, numWriters |-> NWriters, batchSize |-> BatchSize],
            [numWalkers |-> NWalkers, numWriters |-> 1, batchSize |-> 1]}
Folders == {1, 2}

NULL == 0        \* SQL NULL for hash, device_id, and "no file"

\* File f is the identity (folder, relative path): id 2 lives in folder 2,
\* the other ids in folder 1 (unique (folder_id, path) index of the files table).
folderOf(f) == IF f = 2 THEN 2 ELSE 1

\* ------------------------------------------------------------ filesystem
\* The objects a path can hold.  ino is the raw st_ino; MaxInt64 is scaled
\* down to MaxIno so that an overflowing inode exists among the objects.
\* The digest of an object's content is its index (distinct objects have
\* distinct content).
MaxIno == 3
Objects == << [size |-> 1, ino |-> 1, dev |-> 1],
              [size |-> 1, ino |-> 5, dev |-> 1],
              [size |-> 2, ino |-> 6, dev |-> 1] >>
Objs == 1..Len(Objects)
Digest(o) == o

\* statTToInt64 (uint64 case): a value above the maximum becomes 0.
statTToInt64(x) == IF x > MaxIno THEN 0 ELSE x

\* inodeAndDev + the caller's "if dev != 0 { deviceID = &dev }".
inodeAndDev(o) == [inode |-> statTToInt64(Objects[o].ino),
                   dev   |-> statTToInt64(Objects[o].dev)]

\* The Entry a walker builds for the object at a path.
EntryOf(o) == [size  |-> Objects[o].size,
               inode |-> inodeAndDev(o).inode,
               dev   |-> inodeAndDev(o).dev]

VARIABLES
    disk,      \* [Files -> Objs \cup {NULL}]: what is at each path now
    files,     \* [Files -> row]: the files table
    ledger,    \* set of <<file, scan>>: the file_scan table
    scans,     \* [Scans -> row]: the scans table
    held,      \* [Workers -> Files \cup {NULL}]: the job a claim caller holds
    claimed,   \* [Files -> Nat]: times ClaimNextHashJob returned the file
    resets,    \* [Files -> Nat]: times the holder reset the file to pending
    crashes,   \* times the process died so far
    \* RunHashPhase
    hpc,       \* where RunHashPhase is: idle, reset, start, wait, count, complete, returned
    hscan,     \* its scanID
    hres,      \* its return value: "none" (not returned), "nil", or an error
    hcount,    \* fileCount read by GetHashedFileCountAndBytes
    nw,        \* opts.workers()
    cancelled, \* ctx.Err() # nil
    ppc,       \* the producer goroutine: off, query, send, done
    prows,     \* rows of pendingHashJobsQuery not yet sent
    jobs,      \* the jobs channel's buffer
    jobsClosed,\* close(jobs) was called
    errCh,     \* the errCh channel's buffer (capacity 1)
    wpc,       \* [Workers -> off, recv, inode, prev, hash, update, fail, exited]
    wjob,      \* [Workers -> job]: the job a worker is processing
    wh,        \* [Workers -> digest]: the digest it is about to write
    wreused,   \* [Workers -> BOOLEAN]: the digest was reused, not computed
    werr,      \* [Workers -> error]: the error processClaimedJob returned
    reusedCount,    \* atomic counter of the phase
    hashErrorCount, \* atomic counter of the phase
    faults,    \* store and file-read failures injected so far
    cancels,   \* cancellations so far
    opens,     \* [Files -> Nat]: times HashFile opened the file in this phase
    openedBefore, \* files HashFile opened in an earlier phase
    updated,   \* [Files -> Nat]: times UpdateFileHash was applied in this phase
    failedJobs,\* files whose processing failed during the current phase
    \* RunScan / RunPipeline
    rpc,       \* where RunScan is: idle, run (in RunPipeline), complete, done
    rscan,     \* scanID
    rres,      \* what RunPipeline / RunScan returned: "none", "nil" or an error
    config,    \* the PipelineConfig of the run
    patterns,  \* the exclude patterns of the run (RunPipeline's patterns)
    dirs,      \* dirQueue.slice
    dirsClosed,\* dirQueue.closed
    dirsHeld,  \* the dir dirQueue.run holds for its send on outChan (0: none)
    outChanClosed, \* close(q.outChan) was called
    wg,        \* the WaitGroup's counter
    walkPc,    \* [Walkers -> select, list, exited]
    walkLeft,  \* [Walkers -> entries of its directory not yet handled]
    pushed,    \* [Dirs -> Nat]: times the directory was pushed to the queue
    listed,    \* [Dirs -> Nat]: times a walker received the directory
    walkErr,   \* the first error processOneDir returned to a walker ("none": none)
    fileChan,  \* the fileChan buffer
    fileChanClosed, \* close(fileChan) was called
    closerPc,  \* the closer goroutine: wait, closeFile, done
    writPc,    \* [Writers -> run, exited]
    batch,     \* [Writers -> its batch]
    writerDone,\* the writerDone channel's buffer
    filesWritten, \* metrics.FilesWritten
    emitted,   \* files sent on fileChan during the scan
    progressDone, \* close(progressDone) was called
    updPc,     \* the progress updater: off, select, write, exited
    updN,      \* the count it loaded from metrics.FilesWritten
    \* orchestrator
    scanQueue, \* the scanQueue channel's buffer
    opc,       \* runScanWorker: select, get, scan, hash
    ocur,      \* scanID of runOneScan
    stale,     \* walkers of pipelines that have returned and are still running
    requests,  \* start and continue requests handled so far
    httpStatus,\* status code of the last start or continue response (0: none yet)
    \* helpers called on their own
    excl,      \* a call of ShouldExclude: its arguments and its result
    retry      \* a call of RetryOnBusy: its arguments, locals and result

storeVars == <<disk, files, ledger, scans>>
claimVars == <<held, claimed, resets, crashes>>
phaseVars == <<hpc, hscan, hres, hcount, nw, cancelled>>
prodVars == <<ppc, prows, jobs, jobsClosed>>
workVars == <<wpc, wjob, wh, wreused, werr>>
histVars == <<faults, cancels, opens, openedBefore, updated, failedJobs>>
hashVars == <<hpc, hscan, hres, hcount, nw, cancelled, ppc, prows, jobs, jobsClosed,
              errCh, wpc, wjob, wh, wreused, werr, reusedCount, hashErrorCount,
              faults, cancels, opens, openedBefore, updated, failedJobs>>
queueVars == <<dirs, dirsClosed, dirsHeld, outChanClosed, wg>>
walkVars == <<walkPc, walkLeft, pushed, listed, walkErr>>
chanVars == <<fileChan, fileChanClosed>>
writeVars == <<writPc, batch, writerDone, filesWritten>>
runVars == <<rpc, rscan, rres, config, patterns>>
pipeVars == <<rpc, rscan, rres, config, patterns, dirs, dirsClosed, dirsHeld, outChanClosed, wg, walkPc,
              walkLeft, pushed, listed, walkErr, fileChan, fileChanClosed, closerPc, writPc, batch, writerDone,
              filesWritten, emitted, progressDone, updPc, updN>>
progVars == <<progressDone, updPc, updN>>
orchVars == <<scanQueue, opc, ocur, stale, requests, httpStatus>>
\* The hash phase without the context and the fault budget.
utilVars == <<excl, retry>>

hashOnly == <<hpc, hscan, hres, hcount, nw, ppc, prows, jobs, jobsClosed, errCh, wpc,
              wjob, wh, wreused, werr, reusedCount, hashErrorCount, opens, openedBefore, updated, failedJobs>>
vars == <<disk, files, ledger, scans, held, claimed, resets, crashes, hashVars, pipeVars,
          orchVars, utilVars>>

\* ----------------------------------------------------------------- store
NoFile == [exists |-> FALSE, size |-> 0, inode |-> 0, dev |-> NULL,
           hash |-> NULL, status |-> "pending"]

\* Timestamp columns hold 0 for NULL, otherwise the reading of the clock.
NoScan == [exists |-> FALSE, folder |-> 0, created_at |-> 0, completed_at |-> 0,
           hash_started_at |-> 0, hash_completed_at |-> 0,
           file_count |-> -1, hashed_file_count |-> -1,
           hash_reused_count |-> -1, hash_error_count |-> -1]

RECURSIVE MaxOf(_)
MaxOf(S) == IF S = {} THEN 0
            ELSE LET x == CHOOSE y \in S : TRUE
                     m == MaxOf(S \ {x})
                 IN IF x > m THEN x ELSE m

\* time.Now(): later than every timestamp already stored.
Now(sc) == 1 + MaxOf(UNION {{sc[s].created_at, sc[s].completed_at,
                             sc[s].hash_started_at, sc[s].hash_completed_at} :
                            s \in Scans})

\* CreateScan: a new row with completed_at and every hash column NULL.
CreateScan(sc, s, folder) ==
    [sc EXCEPT ![s] = [NoScan EXCEPT !.exists = TRUE, !.folder = folder,
                                     !.created_at = Now(sc)]]

\* An upsert that also returns the row to 'pending' without a digest.
UpsertFile_ResetsHash(fs, f, e) ==
    [fs EXCEPT ![f] = [exists |-> TRUE, size |-> e.size, inode |-> e.inode,
                       dev |-> e.dev, hash |-> NULL, status |-> "pending"]]

\* UpsertFile / one row of UpsertFilesBatch: INSERT ... 'pending' ON CONFLICT
\* (folder_id, path) DO UPDATE SET size, mtime, inode, device_id.
UpsertFile(fs, f, e) ==
    IF fs[f].exists
    THEN [fs EXCEPT ![f].size = e.size, ![f].inode = e.inode, ![f].dev = e.dev]
    ELSE [fs EXCEPT ![f] = [exists |-> TRUE, size |-> e.size, inode |-> e.inode,
                            dev |-> e.dev, hash |-> NULL, status |-> "pending"]]

\* InsertFileScan: ON CONFLICT (file_id, scan_id) DO NOTHING.
InsertFileScan(lg, f, s) == lg \cup {<<f, s>>}

InScan(lg, s) == {f \in Files : <<f, s>> \in lg}

\* A subquery without HAVING COUNT(*) > 1: every size of the scan.
sizeCandidateSubquery_EverySize(fs, lg, s) == {fs[f].size : f \in InScan(lg, s)}

\* sizeCandidateSubquery: sizes shared inside the scan, sizes of any 'done'
\* file, sizes of any file in another scan's ledger.
sizeCandidateSubquery(fs, lg, s) ==
    {z \in {fs[f].size : f \in InScan(lg, s)} :
        Cardinality({f \in InScan(lg, s) : fs[f].size = z}) > 1}
    \cup {fs[f].size : f \in {g \in Files : fs[g].exists /\ fs[g].status = "done"}}
    \cup {fs[p[1]].size : p \in {q \in lg : q[2] # s}}

\* The rows pendingHashJobsQuery and the claim's subquery select.
PendingCandidates(fs, lg, s) ==
    {f \in InScan(lg, s) :
        /\ fs[f].status = "pending"
        /\ fs[f].size \in sizeCandidateSubquery(fs, lg, s)}

\* A claim whose subquery forgets the status filter.
ClaimChoices_AnyStatus(fs, lg, s) ==
    {f \in InScan(lg, s) : fs[f].status # "done"}

\* ORDER BY f.size DESC LIMIT 1: any candidate of the largest size.
ClaimChoices(fs, lg, s) ==
    {f \in PendingCandidates(fs, lg, s) :
        \A g \in PendingCandidates(fs, lg, s) : fs[g].size <= fs[f].size}

\* UpdateFileHash: SET hash, hash_status = 'done', hashed_at.
UpdateFileHash(fs, f, h) == [fs EXCEPT ![f].hash = h, ![f].status = "done"]

\* ResetFileHashStatusToPending: ... WHERE id = $1 AND hash_status = 'hashing'.
ResetFileHashStatusToPending(fs, f) ==
    IF fs[f].status = "hashing" THEN [fs EXCEPT ![f].status = "pending"] ELSE fs

\* A reset that changes nothing.
ResetHashStatusHashingToPending_Noop(fs, lg, s) == fs

\* A reset that returns only one of the scan's 'hashing' rows.
ResetHashStatusHashingToPending_OneRow(fs, lg, s) ==
    LET H == {f \in InScan(lg, s) : fs[f].status = "hashing"}
    IN IF H = {} THEN fs
       ELSE [fs EXCEPT ![CHOOSE f \in H : TRUE].status = "pending"]

\* ResetHashStatusHashingToPending: every 'hashing' row of the scan's ledger.
ResetHashStatusHashingToPending(fs, lg, s) ==
    [f \in Files |-> IF f \in InScan(lg, s) /\ fs[f].status = "hashing"
                     THEN [fs[f] EXCEPT !.status = "pending"] ELSE fs[f]]

\* HashForInode: hashes of files of the scan with this (inode, device_id) and a
\* non-null hash (LIMIT 1 returns any one of them).  The two SQL branches are
\* "device_id IS NULL" and "device_id = $3".
HashForInode(fs, lg, s, inode, dev) ==
    {fs[f].hash : f \in {g \in InScan(lg, s) :
        /\ fs[g].inode = inode
        /\ fs[g].dev = dev
        /\ fs[g].hash # NULL}}

\* HashForInodeFromPreviousScan: any file with this (inode, device_id), this
\* size and a non-null hash, whatever scans it is in.
HashForInodeFromPreviousScan(fs, inode, dev, size) ==
    {fs[f].hash : f \in {g \in Files :
        /\ fs[g].exists
        /\ fs[g].inode = inode
        /\ fs[g].dev = dev
        /\ fs[g].size = size
        /\ fs[g].hash # NULL}}

\* ------------------------------------------------- claim-loop workers
\* A writer records one emitted file: upsert, then ledger row.
ScanFile(s, f) ==
    /\ scans[s].exists /\ scans[s].completed_at = NULL
    /\ scans[s].folder = folderOf(f)
    /\ disk[f] # NULL
    /\ <<f, s>> \notin ledger
    /\ files' = UpsertFile(files, f, EntryOf(disk[f]))
    /\ ledger' = InsertFileScan(ledger, f, s)
    /\ UNCHANGED <<pipeVars, orchVars, utilVars, disk, scans, claimVars, hashVars>>

\* ClaimNextHashJob: one UPDATE ... WHERE id = (SELECT ... LIMIT 1) RETURNING id,
\* then the SELECT that loads the row.
ClaimNextHashJob(w, s) ==
    /\ held[w] = NULL
    /\ scans[s].exists
    /\ \E f \in ClaimChoices(files, ledger, s) :
        /\ files' = [files EXCEPT ![f].status = "hashing"]
        /\ held' = [held EXCEPT ![w] = f]
        /\ claimed' = [claimed EXCEPT ![f] = @ + 1]
    /\ UNCHANGED <<pipeVars, orchVars, utilVars, disk, ledger, scans, resets, crashes, hashVars>>

\* The holder commits the digest it computed.
ClaimerDone(w) ==
    /\ held[w] # NULL
    /\ disk[held[w]] # NULL
    /\ files' = UpdateFileHash(files, held[w], Digest(disk[held[w]]))
    /\ held' = [held EXCEPT ![w] = NULL]
    /\ UNCHANGED <<pipeVars, orchVars, utilVars, disk, ledger, scans, claimed, resets, crashes, hashVars>>

\* The holder failed and returns its job to the queue.
ClaimerFail(w) ==
    /\ held[w] # NULL
    /\ resets[held[w]] < MaxResets
    /\ files' = ResetFileHashStatusToPending(files, held[w])
    /\ resets' = [resets EXCEPT ![held[w]] = @ + 1]
    /\ held' = [held EXCEPT ![w] = NULL]
    /\ UNCHANGED <<pipeVars, orchVars, utilVars, disk, ledger, scans, claimed, crashes, hashVars>>

\* Any tree with at most two files in a folder: the last path is free.
InitStore ==
    /\ disk \in {d \in [Files -> Objs \cup {NULL}] : d[NFiles] = NULL}
    /\ files = [f \in Files |-> NoFile]
    /\ ledger = {}

InitClaimIdle ==
    /\ held = [w \in Workers |-> NULL]
    /\ claimed = [f \in Files |-> 0]
    /\ resets = [f \in Files |-> 0]
    /\ crashes = 0

NoJob == [id |-> NULL, size |-> 0, inode |-> 0, dev |-> NULL]

InitHashIdle ==
    /\ hpc = "idle" /\ hscan = 0 /\ hres = "none" /\ hcount = 0 /\ nw = 0
    /\ cancelled = FALSE
    /\ ppc = "off" /\ prows = <<>> /\ jobs = <<>> /\ jobsClosed = FALSE
    /\ errCh = <<>>
    /\ wpc = [w \in Workers |-> "off"]
    /\ wjob = [w \in Workers |-> NoJob]
    /\ wh = [w \in Workers |-> NULL]
    /\ wreused = [w \in Workers |-> FALSE]
    /\ werr = [w \in Workers |-> "none"]
    /\ reusedCount = 0 /\ hashErrorCount = 0
    /\ faults = 0 /\ cancels = 0
    /\ opens = [f \in Files |-> 0] /\ openedBefore = {} /\ updated = [f \in Files |-> 0]
    /\ failedJobs = {}

InitPipeIdle ==
    /\ rpc = "idle" /\ rscan = 0 /\ rres = "none"
    /\ config = [numWalkers |-> NWalkers, numWriters |-> NWriters, batchSize |-> BatchSize]
    /\ patterns = <<>>
    /\ dirs = <<>> /\ dirsClosed = FALSE /\ dirsHeld = 0 /\ outChanClosed = FALSE
    /\ wg = 0
    /\ walkPc = [k \in Walkers |-> "exited"]
    /\ walkLeft = [k \in Walkers |-> <<>>]
    /\ pushed = [d \in Dirs |-> 0] /\ listed = [d \in Dirs |-> 0]
    /\ walkErr = "none"
    /\ fileChan = <<>> /\ fileChanClosed = FALSE
    /\ closerPc = "done"
    /\ writPc = [x \in Writers |-> "exited"]
    /\ batch = [x \in Writers |-> <<>>]
    /\ writerDone = <<>>
    /\ filesWritten = 0
    /\ emitted = {}
    /\ progressDone = FALSE /\ updPc = "off" /\ updN = 0

\* No call of ShouldExclude or RetryOnBusy has been made.
NoCall == [path |-> <<>>, patterns |-> <<>>, called |-> FALSE, result |-> FALSE]
NoRetry == [pc |-> "idle"]

InitOrchIdle ==
    /\ scanQueue = <<>> /\ opc = "select" /\ ocur = 0 /\ stale = {}
    /\ requests = 0 /\ httpStatus = 0
    /\ excl = NoCall /\ retry = NoRetry

\* Two scans exist, one per folder; files are recorded while callers claim.
InitClaim ==
    /\ InitStore
    /\ scans = [s \in Scans |-> [NoScan EXCEPT !.exists = TRUE, !.created_at = s,
                                          !.folder = IF s % 2 = 1 THEN 1 ELSE 2]]
    /\ InitClaimIdle
    /\ InitHashIdle
    /\ InitPipeIdle
    /\ InitOrchIdle

NextClaim ==
    \/ \E s \in Scans, f \in Files : ScanFile(s, f)
    \/ \E w \in Workers, s \in Scans : ClaimNextHashJob(w, s)
    \/ \E w \in Workers : ClaimerDone(w)
    \/ \E w \in Workers : ClaimerFail(w)

SpecClaim == InitClaim /\ [][NextClaim]_vars

\* ------------------------------------------------------------ hash phase
\* UpdateScanCompletedAt: completed_at, file_count (skipped count not modelled).
UpdateScanCompletedAt(sc, s, n) ==
    [sc EXCEPT ![s].completed_at = Now(sc), ![s].file_count = n]

\* UpdateScanHashStartedAt: hash_started_at = now, hash_completed_at and the
\* four hash counts = NULL.
UpdateScanHashStartedAt(sc, s) ==
    [sc EXCEPT ![s].hash_started_at = Now(sc), ![s].hash_completed_at = NULL,
               ![s].hashed_file_count = -1, ![s].hash_reused_count = -1,
               ![s].hash_error_count = -1]

\* UpdateScanHashCompletedAt: hash_completed_at = now and the counts.
UpdateScanHashCompletedAt(sc, s, n, reused, errors) ==
    [sc EXCEPT ![s].hash_completed_at = Now(sc), ![s].hashed_file_count = n,
               ![s].hash_reused_count = reused, ![s].hash_error_count = errors]

\* A count of the 'done' rows of the whole table.
GetHashedFileCount_AnyScan(fs, lg, s) ==
    Cardinality({f \in Files : fs[f].exists /\ fs[f].status = "done"})

\* GetHashedFileCountAndBytes: COUNT(*) of the scan's files with status 'done'.
GetHashedFileCount(fs, lg, s) ==
    Cardinality({f \in InScan(lg, s) : fs[f].status = "done"})

\* Store calls that do not look at the context.
DbOutcomes_IgnoresCtx == {"ok"}

\* What a store call made now can return: the context's error once it is
\* cancelled, otherwise success or (while the fault budget lasts) a failure.
DbOutcomes ==
    IF cancelled THEN {"Canceled"}
    ELSE {"ok"} \cup (IF faults + cancels < MaxFaults THEN {"db"} ELSE {})

Fault(r) == IF r \in {"db", "io"} THEN faults + 1 ELSE faults

\* Non-blocking send on errCh (select with default).
TrySend(ch, e) == IF Len(ch) < 1 THEN Append(ch, e) ELSE ch

JobOf(fs, f) == [id |-> f, size |-> fs[f].size, inode |-> fs[f].inode, dev |-> fs[f].dev]

\* The orders ORDER BY f.size DESC can return the rows of S in.
SortedRows(fs, S) ==
    {sq \in [1..Cardinality(S) -> S] :
        /\ \A i, j \in 1..Cardinality(S) : i # j => sq[i] # sq[j]
        /\ \A i, j \in 1..Cardinality(S) : i < j => fs[sq[i]].size >= fs[sq[j]].size}

\* RunScan as the store sees a successful run: CreateScan, one upsert and one
\* ledger row per regular file under the folder, then UpdateScanCompletedAt.
OnDisk(folder) == {f \in Files : folderOf(f) = folder /\ disk[f] # NULL}

RECURSIVE UpsertAll(_, _)
UpsertAll(fs, S) ==
    IF S = {} THEN fs
    ELSE LET f == CHOOSE x \in S : TRUE
         IN UpsertAll(UpsertFile(fs, f, EntryOf(disk[f])), S \ {f})

RunScan(s, folder) ==
    /\ hpc \in {"idle", "returned"}
    /\ ~scans[s].exists
    /\ \A t \in Scans : t < s => scans[t].exists
    /\ files' = UpsertAll(files, OnDisk(folder))
    /\ ledger' = ledger \cup {<<f, s>> : f \in OnDisk(folder)}
    /\ scans' = UpdateScanCompletedAt(CreateScan(scans, s, folder), s,
                                      Cardinality(OnDisk(folder)))
    /\ UNCHANGED <<pipeVars, orchVars, utilVars, disk, claimVars, hashVars>>

\* A call of RunHashPhase(ctx, db, s, opts) with opts.workers() = n: the
\* phase's own state as the call starts.
RunHashPhaseBegin(s, n) ==
    /\ hpc' = "reset" /\ hscan' = s /\ hres' = "none" /\ hcount' = 0 /\ nw' = n
    /\ ppc' = "off" /\ prows' = <<>> /\ jobs' = <<>> /\ jobsClosed' = FALSE
    /\ errCh' = <<>>
    /\ wpc' = [w \in Workers |-> "off"]
    /\ wjob' = [w \in Workers |-> NoJob]
    /\ wh' = [w \in Workers |-> NULL]
    /\ wreused' = [w \in Workers |-> FALSE]
    /\ werr' = [w \in Workers |-> "none"]
    /\ reusedCount' = 0 /\ hashErrorCount' = 0
    /\ opens' = [f \in Files |-> 0] /\ failedJobs' = {}
    /\ openedBefore' = openedBefore \cup {f \in Files : opens[f] > 0}
    /\ updated' = [f \in Files |-> 0]

\* RunHashPhase is called for a scanned scan with n workers and a fresh context.
RunHashPhase(s, n) ==
    /\ hpc \in {"idle", "returned"}
    /\ scans[s].exists /\ scans[s].completed_at # NULL
    /\ scans[s].hash_completed_at = NULL
    /\ RunHashPhaseBegin(s, n)
    /\ cancelled' = FALSE
    /\ UNCHANGED <<pipeVars, orchVars, utilVars, storeVars, claimVars, faults, cancels>>

\* RunHashPhase line 68: ResetHashStatusHashingToPending, return on error.
HashReset ==
    /\ hpc = "reset"
    /\ \E r \in DbOutcomes :
        /\ faults' = Fault(r)
        /\ IF r = "ok"
           THEN /\ files' = ResetHashStatusHashingToPending(files, ledger, hscan)
                /\ hpc' = "start" /\ hres' = hres
           ELSE /\ files' = files
                /\ hpc' = "returned" /\ hres' = r
    /\ UNCHANGED <<pipeVars, orchVars, utilVars, disk, ledger, scans, claimVars, hscan, hcount, nw, cancelled,
                   prodVars, errCh, workVars, reusedCount, hashErrorCount,
                   cancels, opens, openedBefore, updated, failedJobs>>

\* RunHashPhase line 71: UpdateScanHashStartedAt; then runHashPhaseProducerConsumer
\* starts the producer and the workers.
HashStart ==
    /\ hpc = "start"
    /\ \E r \in DbOutcomes :
        /\ faults' = Fault(r)
        /\ IF r = "ok"
           THEN /\ scans' = UpdateScanHashStartedAt(scans, hscan)
                /\ hpc' = "wait" /\ hres' = hres
                /\ ppc' = "query"
                /\ wpc' = [w \in Workers |-> IF w <= nw THEN "recv" ELSE "off"]
           ELSE /\ scans' = scans
                /\ hpc' = "returned" /\ hres' = r
                /\ ppc' = ppc /\ wpc' = wpc
    /\ UNCHANGED <<pipeVars, orchVars, utilVars, disk, files, ledger, claimVars, hscan, hcount, nw, cancelled,
                   prows, jobs, jobsClosed, errCh, wjob, wh, wreused, werr,
                   reusedCount, hashErrorCount, cancels, opens, openedBefore, updated, failedJobs>>

\* The producer's query (ForEachPendingHashJob, QueryContext).  On an error the
\* deferred close(jobs) runs, and an error other than context.Canceled is
\* offered to errCh.
ProducerQuery ==
    /\ ppc = "query"
    /\ \E r \in DbOutcomes :
        /\ faults' = Fault(r)
        /\ IF r = "ok"
           THEN /\ \E rows \in SortedRows(files, PendingCandidates(files, ledger, hscan)) :
                      prows' = [i \in 1..Len(rows) |-> JobOf(files, rows[i])]
                /\ ppc' = "send"
                /\ jobsClosed' = jobsClosed /\ errCh' = errCh
           ELSE /\ prows' = prows
                /\ ppc' = "done"
                /\ jobsClosed' = TRUE
                /\ errCh' = IF r # "Canceled" THEN TrySend(errCh, r) ELSE errCh
    /\ UNCHANGED <<pipeVars, orchVars, utilVars, storeVars, claimVars, phaseVars, jobs, workVars, reusedCount,
                   hashErrorCount, cancels, opens, openedBefore, updated, failedJobs>>

\* The callback's select: send the row when the buffer has room, or give up
\* with ctx.Err() when the context is done.
ProducerSend ==
    /\ ppc = "send" /\ prows # <<>>
    /\ \/ /\ Len(jobs) < JobChanCap
          /\ jobs' = Append(jobs, Head(prows))
          /\ prows' = Tail(prows)
          /\ UNCHANGED <<ppc, jobsClosed>>
       \/ /\ cancelled
          /\ ppc' = "done" /\ jobsClosed' = TRUE
          /\ UNCHANGED <<jobs, prows>>
    /\ UNCHANGED <<pipeVars, orchVars, utilVars, storeVars, claimVars, phaseVars, errCh, workVars, reusedCount,
                   hashErrorCount, faults, cancels, opens, openedBefore, updated, failedJobs>>

\* rows exhausted: ForEachPendingHashJob returns nil and close(jobs) runs.
ProducerClose ==
    /\ ppc = "send" /\ prows = <<>>
    /\ ppc' = "done" /\ jobsClosed' = TRUE
    /\ UNCHANGED <<pipeVars, orchVars, utilVars, storeVars, claimVars, phaseVars, prows, jobs, errCh, workVars,
                   reusedCount, hashErrorCount, histVars>>

\* A receive that leaves the job in the buffer.
WorkerRecv_Peek(w) ==
    /\ wpc[w] = "recv"
    /\ \/ /\ jobs # <<>>
          /\ jobs' = jobs
          /\ IF cancelled
             THEN wpc' = [wpc EXCEPT ![w] = "exited"] /\ wjob' = wjob
             ELSE wpc' = [wpc EXCEPT ![w] = "inode"]
                  /\ wjob' = [wjob EXCEPT ![w] = Head(jobs)]
       \/ /\ jobs = <<>> /\ jobsClosed
          /\ wpc' = [wpc EXCEPT ![w] = "exited"]
          /\ UNCHANGED <<jobs, wjob>>
    /\ UNCHANGED <<pipeVars, orchVars, utilVars, storeVars, claimVars, phaseVars, ppc, prows, jobsClosed, errCh,
                   wh, wreused, werr, reusedCount, hashErrorCount, histVars>>

\* for job := range jobs { if ctx.Err() != nil { return } ...
WorkerRecv(w) ==
    /\ wpc[w] = "recv"
    /\ \/ /\ jobs # <<>>
          /\ jobs' = Tail(jobs)
          /\ IF cancelled
             THEN wpc' = [wpc EXCEPT ![w] = "exited"] /\ wjob' = wjob
             ELSE wpc' = [wpc EXCEPT ![w] = "inode"]
                  /\ wjob' = [wjob EXCEPT ![w] = Head(jobs)]
       \/ /\ jobs = <<>> /\ jobsClosed
          /\ wpc' = [wpc EXCEPT ![w] = "exited"]
          /\ UNCHANGED <<jobs, wjob>>
    /\ UNCHANGED <<pipeVars, orchVars, utilVars, storeVars, claimVars, phaseVars, ppc, prows, jobsClosed, errCh,
                   wh, wreused, werr, reusedCount, hashErrorCount, histVars>>

\* processClaimedJob lines 166-177: same-scan inode reuse.
WorkerInode(w) ==
    /\ wpc[w] = "inode"
    /\ \E r \in DbOutcomes :
        /\ faults' = Fault(r)
        /\ IF r = "ok"
           THEN LET hs == HashForInode(files, ledger, hscan, wjob[w].inode, wjob[w].dev)
                IN /\ werr' = werr
                   /\ IF hs = {}
                      THEN wpc' = [wpc EXCEPT ![w] = "prev"] /\ UNCHANGED <<wh, wreused>>
                      ELSE /\ \E h \in hs : wh' = [wh EXCEPT ![w] = h]
                           /\ wreused' = [wreused EXCEPT ![w] = TRUE]
                           /\ wpc' = [wpc EXCEPT ![w] = "update"]
           ELSE /\ werr' = [werr EXCEPT ![w] = r]
                /\ wpc' = [wpc EXCEPT ![w] = "fail"]
                /\ UNCHANGED <<wh, wreused>>
    /\ UNCHANGED <<pipeVars, orchVars, utilVars, storeVars, claimVars, phaseVars, prodVars, errCh, wjob,
                   reusedCount, hashErrorCount, cancels, opens, openedBefore, updated, failedJobs>>

\* processClaimedJob lines 180-191: unchanged-file reuse from any scan.
WorkerPrev(w) ==
    /\ wpc[w] = "prev"
    /\ \E r \in DbOutcomes :
        /\ faults' = Fault(r)
        /\ IF r = "ok"
           THEN LET hs == HashForInodeFromPreviousScan(files, wjob[w].inode,
                                                       wjob[w].dev, wjob[w].size)
                IN /\ werr' = werr
                   /\ IF hs = {}
                      THEN wpc' = [wpc EXCEPT ![w] = "hash"] /\ UNCHANGED <<wh, wreused>>
                      ELSE /\ \E h \in hs : wh' = [wh EXCEPT ![w] = h]
                           /\ wreused' = [wreused EXCEPT ![w] = TRUE]
                           /\ wpc' = [wpc EXCEPT ![w] = "update"]
           ELSE /\ werr' = [werr EXCEPT ![w] = r]
                /\ wpc' = [wpc EXCEPT ![w] = "fail"]
                /\ UNCHANGED <<wh, wreused>>
    /\ UNCHANGED <<pipeVars, orchVars, utilVars, storeVars, claimVars, phaseVars, prodVars, errCh, wjob,
                   reusedCount, hashErrorCount, cancels, opens, openedBefore, updated, failedJobs>>

\* processClaimedJob line 199: HashFile opens and reads the file; the open or
\* the read can fail.
WorkerHash(w) ==
    /\ wpc[w] = "hash"
    /\ opens' = [opens EXCEPT ![wjob[w].id] = @ + 1]
    /\ openedBefore' = openedBefore /\ updated' = updated
    /\ \E r \in {"ok"} \cup (IF faults + cancels < MaxFaults THEN {"io"} ELSE {}) :
        /\ faults' = Fault(r)
        /\ IF r = "ok"
           THEN /\ wh' = [wh EXCEPT ![w] = Digest(disk[wjob[w].id])]
                /\ wreused' = [wreused EXCEPT ![w] = FALSE]
                /\ wpc' = [wpc EXCEPT ![w] = "update"]
                /\ werr' = werr
           ELSE /\ werr' = [werr EXCEPT ![w] = "io"]
                /\ wpc' = [wpc EXCEPT ![w] = "fail"]
                /\ UNCHANGED <<wh, wreused>>
    /\ UNCHANGED <<pipeVars, orchVars, utilVars, storeVars, claimVars, phaseVars, prodVars, errCh, wjob,
                   reusedCount, hashErrorCount, cancels, failedJobs>>

\* UpdateFileHash of the reused or computed digest; on success the worker counts
\* a reuse and goes on to the next job.
WorkerUpdate(w) ==
    /\ wpc[w] = "update"
    /\ \E r \in DbOutcomes :
        /\ faults' = Fault(r)
        /\ IF r = "ok"
           THEN /\ files' = UpdateFileHash(files, wjob[w].id, wh[w])
                /\ updated' = [updated EXCEPT ![wjob[w].id] = @ + 1]
                /\ reusedCount' = IF wreused[w] THEN reusedCount + 1 ELSE reusedCount
                /\ wpc' = [wpc EXCEPT ![w] = "recv"]
                /\ wjob' = [wjob EXCEPT ![w] = NoJob]
                /\ wh' = [wh EXCEPT ![w] = NULL]
                /\ wreused' = [wreused EXCEPT ![w] = FALSE]
                /\ werr' = werr
           ELSE /\ files' = files /\ reusedCount' = reusedCount /\ updated' = updated
                /\ werr' = [werr EXCEPT ![w] = r]
                /\ wpc' = [wpc EXCEPT ![w] = "fail"]
                /\ UNCHANGED <<wjob, wh, wreused>>
    /\ UNCHANGED <<pipeVars, orchVars, utilVars, disk, ledger, scans, claimVars, phaseVars, prodVars, errCh,
                   hashErrorCount, cancels, opens, openedBefore, failedJobs>>

\* runHashPhaseProducerConsumer lines 134-144: count the error, reset the file
\* (the store call fails under a cancelled context), offer the error to errCh
\* and return from the worker goroutine.
WorkerFail(w) ==
    /\ wpc[w] = "fail"
    /\ hashErrorCount' = hashErrorCount + 1
    /\ files' = IF cancelled THEN files
                ELSE ResetFileHashStatusToPending(files, wjob[w].id)
    /\ errCh' = TrySend(errCh, werr[w])
    /\ failedJobs' = failedJobs \cup {wjob[w].id}
    /\ wpc' = [wpc EXCEPT ![w] = "exited"]
    /\ wjob' = [wjob EXCEPT ![w] = NoJob]
    /\ wh' = [wh EXCEPT ![w] = NULL]
    /\ wreused' = [wreused EXCEPT ![w] = FALSE]
    /\ werr' = [werr EXCEPT ![w] = "none"]
    /\ UNCHANGED <<pipeVars, orchVars, utilVars, disk, ledger, scans, claimVars, phaseVars, prodVars,
                   reusedCount, faults, cancels, opens, openedBefore, updated>>

\* wg.Wait() then the select on errCh (lines 153-159) and RunHashPhase's
\* "if err != nil { return err }".
HashWait ==
    /\ hpc = "wait"
    /\ \A w \in Workers : w <= nw => wpc[w] = "exited"
    /\ IF errCh # <<>>
       THEN hpc' = "returned" /\ hres' = Head(errCh) /\ errCh' = Tail(errCh)
       ELSE hpc' = "count" /\ hres' = hres /\ errCh' = errCh
    /\ UNCHANGED <<pipeVars, orchVars, utilVars, storeVars, claimVars, hscan, hcount, nw, cancelled, prodVars,
                   workVars, reusedCount, hashErrorCount, histVars>>

\* RunHashPhase line 85: GetHashedFileCountAndBytes.
HashCount ==
    /\ hpc = "count"
    /\ \E r \in DbOutcomes :
        /\ faults' = Fault(r)
        /\ IF r = "ok"
           THEN hcount' = GetHashedFileCount(files, ledger, hscan)
                /\ hpc' = "complete" /\ hres' = hres
           ELSE hcount' = hcount /\ hpc' = "returned" /\ hres' = r
    /\ UNCHANGED <<pipeVars, orchVars, utilVars, storeVars, claimVars, hscan, nw, cancelled, prodVars, errCh,
                   workVars, reusedCount, hashErrorCount, cancels, opens, openedBefore, updated, failedJobs>>

\* RunHashPhase line 90: return UpdateScanHashCompletedAt(...).
HashComplete ==
    /\ hpc = "complete"
    /\ \E r \in DbOutcomes :
        /\ faults' = Fault(r)
        /\ IF r = "ok"
           THEN scans' = UpdateScanHashCompletedAt(scans, hscan, hcount,
                                                   reusedCount, hashErrorCount)
                /\ hres' = "nil"
           ELSE scans' = scans /\ hres' = r
        /\ hpc' = "returned"
    /\ UNCHANGED <<pipeVars, orchVars, utilVars, disk, files, ledger, claimVars, hscan, hcount, nw, cancelled,
                   prodVars, errCh, workVars, reusedCount, hashErrorCount, cancels,
                   opens, openedBefore, updated, failedJobs>>

\* The caller cancels the context of the running phase.
Cancel ==
    /\ hpc \notin {"idle", "returned"}
    /\ ~cancelled /\ faults + cancels < MaxFaults
    /\ cancelled' = TRUE /\ cancels' = cancels + 1
    /\ UNCHANGED <<pipeVars, orchVars, utilVars, storeVars, claimVars, hpc, hscan, hres, hcount, nw, prodVars,
                   errCh, workVars, reusedCount, hashErrorCount, faults, opens, openedBefore, updated, failedJobs>>

InitHash ==
    /\ InitStore
    /\ scans = [s \in Scans |-> NoScan]
    /\ InitClaimIdle
    /\ InitHashIdle
    /\ InitPipeIdle
    /\ InitOrchIdle

\* A step of RunHashPhase or of one of its goroutines.
PhaseStep ==
    \/ HashReset
    \/ HashStart
    \/ ProducerQuery
    \/ ProducerSend
    \/ ProducerClose
    \/ \E w \in Workers : WorkerRecv(w)
    \/ \E w \in Workers : WorkerInode(w)
    \/ \E w \in Workers : WorkerPrev(w)
    \/ \E w \in Workers : WorkerHash(w)
    \/ \E w \in Workers : WorkerUpdate(w)
    \/ \E w \in Workers : WorkerFail(w)
    \/ HashWait
    \/ HashCount
    \/ HashComplete

NextHash ==
    \/ \E s \in Scans, d \in Folders : RunScan(s, d)
    \/ \E s \in Scans, n \in 1..NWorkers : RunHashPhase(s, n)
    \/ PhaseStep
    \/ Cancel

SpecHash == InitHash /\ [][NextHash]_vars

\* ---------------------------------------------------------------- exclusion
\* Paths and patterns are strings, written as sequences of one-character
\* strings.  os.PathSeparator on the platforms the scanner runs on.
Separator == "/"

\* strings.HasSuffix and strings.Contains.
HasSuffix(s, t) == Len(t) <= Len(s) /\ SubSeq(s, Len(s) - Len(t) + 1, Len(s)) = t
Contains(s, t) == \E i \in 1..(Len(s) - Len(t) + 1) : SubSeq(s, i, i + Len(t) - 1) = t

\* filepath.ToSlash: every separator becomes a slash.
ToSlash(path) == [i \in 1..Len(path) |-> IF path[i] = Separator THEN "/" ELSE path[i]]

\* filepath.Base: "." for the empty path; trailing separators are dropped; the
\* part after the last separator; the separator itself when nothing is left.
RECURSIVE StripTrailing(_)
StripTrailing(path) ==
    IF path # <<>> /\ path[Len(path)] = Separator
    THEN StripTrailing(SubSeq(path, 1, Len(path) - 1)) ELSE path

Base(path) ==
    IF path = <<>> THEN <<".">>
    ELSE LET s == StripTrailing(path)
             i == MaxOf({j \in 1..Len(s) : s[j] = Separator})
             b == SubSeq(s, i + 1, Len(s))
         IN IF b = <<>> THEN <<Separator>> ELSE b

\* filepath.Match for patterns made of literals, '*' (any run of characters
\* other than the separator) and '?' (one character other than the separator).
RECURSIVE Match(_, _)
Match(pattern, name) ==
    IF pattern = <<>> THEN name = <<>>
    ELSE IF Head(pattern) = "*"
    THEN \E k \in 0..Len(name) :
            /\ \A i \in 1..k : name[i] # Separator
            /\ Match(Tail(pattern), SubSeq(name, k + 1, Len(name)))
    ELSE /\ name # <<>>
         /\ \/ Head(pattern) = "?" /\ Head(name) # Separator
            \/ Head(pattern) = Head(name)
         /\ Match(Tail(pattern), Tail(name))

\* segmentMatches: the path is the segment, ends in "/segment", or contains
\* "/segment/".
segmentMatches(path, segment) ==
    \/ path = segment
    \/ HasSuffix(path, <<"/">> \o segment)
    \/ Contains(path, <<"/">> \o segment \o <<"/">>)

\* ShouldExclude: a pattern with '*' or '?' is a glob on the base name, any
\* other pattern a path segment; any match excludes.
ShouldExclude(path, pats) ==
    \E n \in 1..Len(pats) :
        IF \E i \in 1..Len(pats[n]) : pats[n][i] \in {"*", "?"}
        THEN Match(pats[n], Base(path))
        ELSE segmentMatches(ToSlash(path), pats[n])

\* ShouldExclude called on its own: any short path, over a separator and two
\* letters, against no pattern or one short pattern.
MaxPathLen == 5
MaxPatternLen == 2
PathInputs == UNION {[1..n -> {"/", "g", "i"}] : n \in 0..MaxPathLen}
PatternInputs ==
    {<<>>} \cup {<<p>> : p \in UNION {[1..n -> {"g", "i", "*", "?"}] : n \in 1..MaxPatternLen}}

InitMatch ==
    /\ disk = [f \in Files |-> NULL]
    /\ files = [f \in Files |-> NoFile]
    /\ ledger = {}
    /\ scans = [s \in Scans |-> NoScan]
    /\ InitClaimIdle
    /\ InitHashIdle
    /\ InitPipeIdle
    /\ scanQueue = <<>> /\ opc = "select" /\ ocur = 0 /\ stale = {}
    /\ requests = 0 /\ httpStatus = 0
    /\ retry = NoRetry
    /\ excl \in [path : PathInputs, patterns : PatternInputs,
                 called : {FALSE}, result : {FALSE}]

CallShouldExclude ==
    /\ ~excl.called
    /\ excl' = [excl EXCEPT !.called = TRUE,
                            !.result = ShouldExclude(excl.path, excl.patterns)]
    /\ UNCHANGED <<storeVars, claimVars, hashVars, pipeVars, orchVars, retry>>

NextMatch == CallShouldExclude

SpecMatch == InitMatch /\ [][NextMatch]_vars

\* ------------------------------------------------------------- RetryOnBusy
\* fn's results: nil, an error whose text holds SQLITE_BUSY or "database is
\* locked", or any other error.
MaxAttempts == 3     \* largest maxAttempts a caller passes
BackoffCap == 5      \* 5 * time.Second, in seconds
FnResults == {"nil", "SQLITE_BUSY", "database is locked", "other"}

\* An IsBusy that takes every error for contention.
IsBusy_AnyError(err) == err # "nil"

\* IsBusy: false for nil, true when the text holds one of the two markers.
IsBusy(err) == err \in {"SQLITE_BUSY", "database is locked"}

\* RetryOnBusy(ctx, maxAttempts, initialBackoff, fn) is called.
InitRetry ==
    /\ disk = [f \in Files |-> NULL]
    /\ files = [f \in Files |-> NoFile]
    /\ ledger = {}
    /\ scans = [s \in Scans |-> NoScan]
    /\ InitClaimIdle
    /\ InitHashIdle
    /\ InitPipeIdle
    /\ scanQueue = <<>> /\ opc = "select" /\ ocur = 0 /\ stale = {}
    /\ requests = 0 /\ httpStatus = 0
    /\ excl = NoCall
    /\ retry \in [pc : {"loop"}, maxAttempts : 0..MaxAttempts, attempt : {0},
                  backoff : 1..BackoffCap, lastErr : {"nil"}, ret : {"none"},
                  calls : {0}, busy : {0}, busyRetryCount : {0}]

\* One pass of the loop body up to the timer: fn is called; nil and an error
\* that is not busy are returned; the last attempt breaks out of the loop and
\* the function returns lastErr; otherwise the retry is counted and the
\* timer is started.
RetryAttempt ==
    /\ retry.pc = "loop" /\ retry.attempt < retry.maxAttempts
    /\ \E r \in FnResults :
        LET called == [retry EXCEPT !.lastErr = r, !.calls = @ + 1,
                                    !.busy = IF IsBusy(r) THEN @ + 1 ELSE @]
        IN retry' =
            IF r = "nil" \/ ~IsBusy(r) \/ retry.attempt = retry.maxAttempts - 1
            THEN [called EXCEPT !.pc = "returned", !.ret = r]
            ELSE [called EXCEPT !.pc = "sleep", !.busyRetryCount = @ + 1]
    /\ UNCHANGED <<storeVars, claimVars, hashVars, pipeVars, orchVars, excl>>

\* The select on the timer and ctx.Done(): return ctx.Err(), or double the
\* backoff up to the cap and go to the next attempt.
RetrySleep ==
    /\ retry.pc = "sleep"
    /\ \/ retry' = [retry EXCEPT !.pc = "returned", !.ret = "Canceled"]
       \/ retry' = [retry EXCEPT !.pc = "loop", !.attempt = @ + 1,
                                 !.backoff = IF 2 * @ > BackoffCap THEN BackoffCap
                                             ELSE 2 * @]
    /\ UNCHANGED <<storeVars, claimVars, hashVars, pipeVars, orchVars, excl>>

\* The loop condition fails (maxAttempts <= attempt): return lastErr.
RetryLoopEnd ==
    /\ retry.pc = "loop" /\ retry.attempt >= retry.maxAttempts
    /\ retry' = [retry EXCEPT !.pc = "returned", !.ret = retry.lastErr]
    /\ UNCHANGED <<storeVars, claimVars, hashVars, pipeVars, orchVars, excl>>

NextRetry == RetryAttempt \/ RetrySleep \/ RetryLoopEnd

SpecRetry == InitRetry /\ [][NextRetry]_vars

\* filepath.Join(dir, name) of a clean dir and a name.
Join(dir, name) == dir \o <<Separator>> \o name

\* The trees: folder 1 is /r with the file a and the directory g, which holds
\* b; folder 2 is /q with the file gi and the empty directory d.  Files
\* beyond the third are bb, bbb, ... in the last directory.
RECURSIVE DirPath(_, _)
DirPath(folder, d) ==
    IF d = 1 THEN (IF folder = 1 THEN <<"/", "r">> ELSE <<"/", "q">>)
    ELSE Join(DirPath(folder, d - 1), IF folder = 2 /\ d = 2 THEN <<"d">> ELSE <<"g">>)

FileName(f) ==
    IF f = 1 THEN <<"a">>
    ELSE IF f = 2 THEN <<"g", "i">>
    ELSE [i \in 1..(f - 2) |-> "b"]

\* fullPath := filepath.Join(dir, name) of a directory entry.
FullPath(folder, e) ==
    IF e.kind = "dir" THEN DirPath(folder, e.id)
    ELSE Join(DirPath(folder, IF e.id <= 2 THEN 1 ELSE NDirs), FileName(e.id))

\* DefaultExcludePatterns: the patterns of the embedded default.dittoignore
\* (one segment pattern here).
DefaultExcludePatterns == << <<"d">> >>

\* LoadExcludeFile(ExcludeFileInRoot(root)): folder 1 has a .dittoignore with
\* one segment pattern, folder 2 has none.
LoadExcludeFile(folder) == IF folder = 1 THEN << <<"b">> >> ELSE <<>>

\* OptionsForRoot: the default patterns followed by the root file's.
OptionsForRoot(folder) == DefaultExcludePatterns \o LoadExcludeFile(folder)

\* RunPipeline lines 197-200: the default patterns, replaced by
\* opts.ExcludePatterns when the caller gave any.
PatternsOf(o) == IF Len(o) > 0 THEN o ELSE DefaultExcludePatterns

\* An entry that only files are checked for.
Excluded_FilesOnly(folder, e, pats) ==
    e.kind = "file" /\ ShouldExclude(FullPath(folder, e), pats)

\* processOneDir line 368: ShouldExclude(fullPath, patterns).
Excluded(folder, e, pats) == ShouldExclude(FullPath(folder, e), pats)

\* ----------------------------------------------------------- scan pipeline
\* A folder's tree is a chain of directories; file f lies in directory dirOf(f).
dirOf(f) == IF f <= 2 THEN 1 ELSE NDirs

RECURSIVE SeqOf(_)
SeqOf(S) == IF S = {} THEN <<>>
            ELSE LET x == CHOOSE y \in S : \A z \in S : y <= z
                 IN <<x>> \o SeqOf(S \ {x})

\* os.ReadDir(dir): the subdirectory, then the regular files, sorted by name.
ReadDir(folder, d) ==
    (IF d < NDirs THEN <<[kind |-> "dir", id |-> d + 1]>> ELSE <<>>)
    \o [i \in 1..Cardinality({f \in OnDisk(folder) : dirOf(f) = d}) |->
           [kind |-> "file", id |-> SeqOf({f \in OnDisk(folder) : dirOf(f) = d})[i]]]

RECURSIVE Range(_)
Range(sq) == IF sq = <<>> THEN {} ELSE {Head(sq)} \cup Range(Tail(sq))

\* What a store or filesystem call of the pipeline can return.
IoOutcomes == {"ok"} \cup (IF faults + cancels < MaxFaults THEN {"io"} ELSE {})

\* flush(): UpsertFilesBatch, then InsertFileScanBatch; either can fail, and
\* both fail under a cancelled context.  The writer can also panic before it
\* reaches the store.
FlushFailures == {"upsert", "link", "panic"}

FlushOutcomes ==
    IF cancelled THEN {"Canceled"}
    ELSE {"ok"} \cup (IF faults + cancels < MaxFaults THEN FlushFailures ELSE {})

\* A writer whose panic is not turned into a result.
SendDone_NoRecover(ch, r) == IF r = "panic" THEN ch ELSE Append(ch, r)

\* The writer's result on the done channel: runWriter's "done <- err", or
\* runWriterSafe's recover() sending the panic as an error.
SendDone(ch, r) == Append(ch, r)

\* RunPipeline lines 211-248: the queue with the root pushed, the closer, the
\* walkers and the writers.
RunPipelineBegin(s, c, o) ==
    /\ rpc' = "run" /\ rscan' = s /\ rres' = "none"
    /\ config' = c
    /\ patterns' = PatternsOf(o)
    /\ dirs' = <<1>> /\ dirsClosed' = FALSE /\ dirsHeld' = 0 /\ outChanClosed' = FALSE
    /\ wg' = 1
    /\ walkPc' = [k \in Walkers |-> IF k <= c.numWalkers THEN "select" ELSE "exited"]
    /\ walkLeft' = [k \in Walkers |-> <<>>]
    /\ pushed' = [d \in Dirs |-> IF d = 1 THEN 1 ELSE 0]
    /\ listed' = [d \in Dirs |-> 0]
    /\ walkErr' = "none"
    /\ fileChan' = <<>> /\ fileChanClosed' = FALSE
    /\ closerPc' = "wait"
    /\ writPc' = [x \in Writers |-> IF x <= c.numWriters THEN "run" ELSE "exited"]
    /\ batch' = [x \in Writers |-> <<>>]
    /\ writerDone' = <<>>
    /\ filesWritten' = 0
    /\ emitted' = {}
    /\ progressDone' = FALSE /\ updPc' = "select" /\ updN' = 0

\* RunScan lines 43-49: CreateScan, then RunPipeline with a fresh context.
RunScanStart(s, folder, c, o) ==
    /\ rpc \in {"idle", "done"}
    /\ ~scans[s].exists
    /\ \A u \in Scans : u < s => scans[u].exists
    /\ scans' = CreateScan(scans, s, folder)
    /\ RunPipelineBegin(s, c, o)
    /\ cancelled' = FALSE
    /\ UNCHANGED <<disk, files, ledger, claimVars, hashOnly, faults, cancels, orchVars, utilVars>>

\* A queue that hands out its head and keeps it in the slice.
DirQueueTake_KeepHead ==
    /\ rpc # "idle"
    /\ dirsHeld = 0 /\ dirs # <<>>
    /\ dirsHeld' = Head(dirs)
    /\ UNCHANGED <<storeVars, claimVars, hashVars, orchVars, utilVars, runVars, dirs, dirsClosed,
                   outChanClosed, wg, walkVars, chanVars, closerPc, writeVars, emitted, progVars>>

\* dirQueue.run: take the head of the slice for the send on outChan.
DirQueueTake ==
    /\ rpc # "idle"
    /\ dirsHeld = 0 /\ dirs # <<>>
    /\ dirsHeld' = Head(dirs) /\ dirs' = Tail(dirs)
    /\ UNCHANGED <<storeVars, claimVars, hashVars, orchVars, utilVars, runVars, dirsClosed,
                   outChanClosed, wg, walkVars, chanVars, closerPc, writeVars, emitted, progVars>>

\* dirQueue.run: closed and drained, close(q.outChan).
DirQueueCloseOut ==
    /\ dirsHeld = 0 /\ dirs = <<>> /\ dirsClosed /\ ~outChanClosed
    /\ outChanClosed' = TRUE
    /\ UNCHANGED <<storeVars, claimVars, hashVars, orchVars, utilVars, runVars, dirs, dirsClosed,
                   dirsHeld, wg, walkVars, chanVars, closerPc, writeVars, emitted, progVars>>

\* A queue whose Push has no room to put a directory.
CanPush_NoRoom(q) == Len(q) < 0

\* dirQueue.Push appends to the slice under the mutex: it never waits for room.
CanPush(q) == TRUE

\* The first error other than the context's that a walker got from
\* processOneDir and logged.
FirstWalkErr(r) == IF r # "ok" /\ walkErr = "none" THEN r ELSE walkErr

\* runWalker's select: ctx.Done, a directory from dirs.Out() (processOneDir
\* then lists it; a failed listing yields no entries), or the closed channel.
WalkerSelect(k) ==
    /\ walkPc[k] = "select"
    /\ \/ /\ cancelled
          /\ walkPc' = [walkPc EXCEPT ![k] = "exited"]
          /\ UNCHANGED <<dirsHeld, walkLeft, listed, walkErr, faults>>
       \/ /\ dirsHeld # 0
          /\ dirsHeld' = 0
          /\ listed' = [listed EXCEPT ![dirsHeld] = @ + 1]
          /\ walkPc' = [walkPc EXCEPT ![k] = "list"]
          /\ \E r \in IoOutcomes :
              /\ faults' = Fault(r)
              /\ walkErr' = FirstWalkErr(r)
              /\ walkLeft' = [walkLeft EXCEPT ![k] =
                     IF r = "ok" THEN ReadDir(scans[rscan].folder, dirsHeld) ELSE <<>>]
       \/ /\ outChanClosed
          /\ walkPc' = [walkPc EXCEPT ![k] = "exited"]
          /\ UNCHANGED <<dirsHeld, walkLeft, listed, walkErr, faults>>
    /\ UNCHANGED <<storeVars, claimVars, hashOnly, cancelled, cancels, orchVars, utilVars, runVars,
                   dirs, dirsClosed, outChanClosed, wg, pushed, chanVars, closerPc,
                   writeVars, emitted, progVars>>

\* One iteration of processOneDir's loop: return on a done context; skip an
\* excluded entry; push a subdirectory; Lstat a regular file and send its Entry on fileChan.
WalkerEntry(k) ==
    /\ walkPc[k] = "list" /\ walkLeft[k] # <<>>
    /\ LET e == Head(walkLeft[k])
       IN \/ /\ cancelled
             /\ walkLeft' = [walkLeft EXCEPT ![k] = <<>>]
             /\ UNCHANGED <<dirs, wg, pushed, walkErr, fileChan, emitted, faults>>
          \/ /\ ~cancelled /\ Excluded(scans[rscan].folder, e, patterns)
             /\ walkLeft' = [walkLeft EXCEPT ![k] = Tail(@)]
             /\ UNCHANGED <<dirs, wg, pushed, walkErr, fileChan, emitted, faults>>
          \/ /\ ~cancelled /\ ~Excluded(scans[rscan].folder, e, patterns)
             /\ e.kind = "dir"
             /\ CanPush(dirs)
             /\ wg' = wg + 1
             /\ dirs' = Append(dirs, e.id)
             /\ pushed' = [pushed EXCEPT ![e.id] = @ + 1]
             /\ walkLeft' = [walkLeft EXCEPT ![k] = Tail(@)]
             /\ UNCHANGED <<walkErr, fileChan, emitted, faults>>
          \/ /\ ~cancelled /\ ~Excluded(scans[rscan].folder, e, patterns)
             /\ e.kind = "file"
             /\ \E r \in IoOutcomes :
                 /\ faults' = Fault(r)
                 /\ walkErr' = FirstWalkErr(r)
                 /\ IF r = "ok"
                    THEN /\ Len(fileChan) < FileChanCap
                         /\ fileChan' = Append(fileChan, e.id)
                         /\ emitted' = emitted \cup {e.id}
                         /\ walkLeft' = [walkLeft EXCEPT ![k] = Tail(@)]
                    ELSE /\ walkLeft' = [walkLeft EXCEPT ![k] = <<>>]
                         /\ UNCHANGED <<fileChan, emitted>>
             /\ UNCHANGED <<dirs, wg, pushed>>
    /\ UNCHANGED <<storeVars, claimVars, hashOnly, cancelled, cancels, orchVars, utilVars, runVars,
                   dirsClosed, dirsHeld, outChanClosed, walkPc, listed, fileChanClosed,
                   closerPc, writeVars, progVars>>

\* A walker that forgets wg.Done().
WalkerDirDone_NoDone(k) ==
    /\ walkPc[k] = "list" /\ walkLeft[k] = <<>>
    /\ walkPc' = [walkPc EXCEPT ![k] = "select"]
    /\ UNCHANGED <<storeVars, claimVars, hashVars, orchVars, utilVars, runVars, queueVars,
                   walkLeft, pushed, listed, walkErr, chanVars, closerPc, writeVars, emitted, progVars>>

\* processOneDir returned: wg.Done() and back to the select.
WalkerDirDone(k) ==
    /\ walkPc[k] = "list" /\ walkLeft[k] = <<>>
    /\ wg' = wg - 1
    /\ walkPc' = [walkPc EXCEPT ![k] = "select"]
    /\ UNCHANGED <<storeVars, claimVars, hashVars, orchVars, utilVars, runVars, dirs, dirsClosed,
                   dirsHeld, outChanClosed, walkLeft, pushed, listed, walkErr, chanVars,
                   closerPc, writeVars, emitted, progVars>>

\* A closer that does not wait for the WaitGroup.
CloserCloseDirs_NoWait ==
    /\ closerPc = "wait"
    /\ dirsClosed' = TRUE
    /\ closerPc' = "closeFile"
    /\ UNCHANGED <<storeVars, claimVars, hashVars, orchVars, utilVars, runVars, dirs, dirsHeld,
                   outChanClosed, wg, walkVars, chanVars, writeVars, emitted, progVars>>

\* The closer: wg.Wait() returned, dirs.Close().
CloserCloseDirs ==
    /\ closerPc = "wait" /\ wg = 0
    /\ dirsClosed' = TRUE
    /\ closerPc' = "closeFile"
    /\ UNCHANGED <<storeVars, claimVars, hashVars, orchVars, utilVars, runVars, dirs, dirsHeld,
                   outChanClosed, wg, walkVars, chanVars, writeVars, emitted, progVars>>

\* The closer: close(fileChan).
CloserCloseFileChan ==
    /\ closerPc = "closeFile"
    /\ fileChanClosed' = TRUE
    /\ closerPc' = "done"
    /\ UNCHANGED <<storeVars, claimVars, hashVars, orchVars, utilVars, runVars, queueVars,
                   walkVars, fileChan, writeVars, emitted, progVars>>

\* A flush that links only the first row of its batch to the scan.
FlushLedger_FirstOnly(b, r) ==
    IF r = "ok" THEN ledger \cup {<<Head(b), rscan>>} ELSE ledger

\* The rows a flush of batch b leaves behind, by outcome.
FlushFiles(b, r) == IF r \in {"ok", "link"} THEN UpsertAll(files, Range(b)) ELSE files
FlushLedger(b, r) == IF r = "ok" THEN ledger \cup {<<f, rscan>> : f \in Range(b)} ELSE ledger

\* runWriter received an entry: append, and flush when the batch is full; a
\* failed flush sends the error on writerDone and the writer returns.
WriterRecv(x) ==
    /\ writPc[x] = "run" /\ fileChan # <<>>
    /\ fileChan' = Tail(fileChan)
    /\ LET b == Append(batch[x], Head(fileChan))
       IN IF Len(b) < config.batchSize
          THEN /\ batch' = [batch EXCEPT ![x] = b]
               /\ UNCHANGED <<files, ledger, writPc, writerDone, filesWritten, faults>>
          ELSE \E r \in FlushOutcomes :
               /\ faults' = IF r \in FlushFailures THEN faults + 1 ELSE faults
               /\ files' = FlushFiles(b, r)
               /\ ledger' = FlushLedger(b, r)
               /\ IF r = "ok"
                  THEN /\ batch' = [batch EXCEPT ![x] = <<>>]
                       /\ filesWritten' = filesWritten + Len(b)
                       /\ UNCHANGED <<writPc, writerDone>>
                  ELSE /\ batch' = [batch EXCEPT ![x] = b]
                       /\ writPc' = [writPc EXCEPT ![x] = "exited"]
                       /\ writerDone' = SendDone(writerDone, r)
                       /\ UNCHANGED filesWritten
    /\ UNCHANGED <<disk, scans, claimVars, hashOnly, cancelled, cancels, orchVars, utilVars,
                   runVars, queueVars, walkVars, fileChanClosed, closerPc, emitted, progVars>>

\* runWriter saw fileChan closed and drained: flush the residual batch (an
\* empty batch needs no store call) and send the result on writerDone.
WriterClosed(x) ==
    /\ writPc[x] = "run" /\ fileChan = <<>> /\ fileChanClosed
    /\ writPc' = [writPc EXCEPT ![x] = "exited"]
    /\ IF batch[x] = <<>>
       THEN /\ writerDone' = Append(writerDone, "nil")
            /\ UNCHANGED <<files, ledger, batch, filesWritten, faults>>
       ELSE \E r \in FlushOutcomes :
            /\ faults' = IF r \in FlushFailures THEN faults + 1 ELSE faults
            /\ files' = FlushFiles(batch[x], r)
            /\ ledger' = FlushLedger(batch[x], r)
            /\ IF r = "ok"
               THEN /\ batch' = [batch EXCEPT ![x] = <<>>]
                    /\ filesWritten' = filesWritten + Len(batch[x])
                    /\ writerDone' = Append(writerDone, "nil")
               ELSE /\ writerDone' = SendDone(writerDone, r)
                    /\ UNCHANGED <<batch, filesWritten>>
    /\ UNCHANGED <<disk, scans, claimVars, hashOnly, cancelled, cancels, orchVars, utilVars,
                   runVars, queueVars, walkVars, chanVars, closerPc, emitted, progVars>>

\* runWriter's select took ctx.Done(): done <- ctx.Err().
WriterCtxDone(x) ==
    /\ writPc[x] = "run" /\ cancelled
    /\ writPc' = [writPc EXCEPT ![x] = "exited"]
    /\ writerDone' = Append(writerDone, "Canceled")
    /\ UNCHANGED <<storeVars, claimVars, hashVars, orchVars, utilVars, runVars, queueVars,
                   walkVars, chanVars, closerPc, batch, filesWritten, emitted, progVars>>

\* The first non-nil result received from writerDone, or "nil".
FirstErr(sq) ==
    IF \A i \in 1..Len(sq) : sq[i] = "nil" THEN "nil"
    ELSE sq[CHOOSE i \in 1..Len(sq) :
                sq[i] # "nil" /\ \A j \in 1..(i - 1) : sq[j] = "nil"]

\* A RunPipeline that returns on the first writer result.
RunPipelineReturn_FirstResult ==
    /\ rpc = "run"
    /\ Len(writerDone) >= 1
    /\ rres' = FirstErr(writerDone)
    /\ progressDone' = TRUE
    /\ rpc' = IF FirstErr(writerDone) = "nil" THEN "complete" ELSE "done"
    /\ UNCHANGED <<storeVars, claimVars, hashVars, orchVars, utilVars, rscan, config, patterns, queueVars, walkVars,
                   chanVars, closerPc, writeVars, emitted, updPc, updN>>

\* RunPipeline lines 251-267: one result per writer, then return firstErr.
RunPipelineReturn ==
    /\ rpc = "run"
    /\ Len(writerDone) = config.numWriters
    /\ rres' = FirstErr(writerDone)
    /\ progressDone' = TRUE
    /\ rpc' = IF FirstErr(writerDone) = "nil" THEN "complete" ELSE "done"
    /\ UNCHANGED <<storeVars, claimVars, hashVars, orchVars, utilVars, rscan, config, patterns, queueVars, walkVars,
                   chanVars, closerPc, writeVars, emitted, updPc, updN>>

\* RunScan lines 53-56: UpdateScanCompletedAt after a successful pipeline.
RunScanFinish ==
    /\ rpc = "complete"
    /\ rpc' = "done"
    /\ \E r \in DbOutcomes :
        /\ faults' = Fault(r)
        /\ IF r = "ok"
           THEN scans' = UpdateScanCompletedAt(scans, rscan, filesWritten) /\ rres' = "nil"
           ELSE scans' = scans /\ rres' = r
    /\ UNCHANGED <<disk, files, ledger, claimVars, hashOnly, cancelled, cancels, orchVars, utilVars,
                   rscan, config, patterns, queueVars, walkVars, chanVars, closerPc, writeVars, emitted, progVars>>

\* The caller cancels the context RunPipeline runs under.
CancelScan ==
    /\ rpc = "run"
    /\ ~cancelled /\ faults + cancels < MaxFaults
    /\ cancelled' = TRUE /\ cancels' = cancels + 1
    /\ UNCHANGED <<storeVars, claimVars, hashOnly, faults, orchVars, utilVars, pipeVars>>

\* UpdateScanFileCountProgress(scan_id, n): the live count is written onto
\* the scan row.
UpdateScanFileCountProgress(sc, s, n) == [sc EXCEPT ![s].file_count = n]

\* runProgressUpdater's select took the ticker: n := metrics.FilesWritten.
\* A select with several ready cases takes any of them, so a tick can be
\* taken although progressDone is closed or the context is done.
UpdaterTick ==
    /\ updPc = "select"
    /\ updPc' = "write" /\ updN' = filesWritten
    /\ UNCHANGED <<storeVars, claimVars, hashVars, orchVars, utilVars, runVars, queueVars,
                   walkVars, chanVars, closerPc, writeVars, emitted, progressDone>>

\* db.UpdateScanFileCountProgress(ctx, database, scanID, n); an error (the
\* context's) is logged and the loop goes on.
UpdaterWrite ==
    /\ updPc = "write"
    /\ updPc' = "select"
    /\ scans' = IF cancelled THEN scans
                ELSE UpdateScanFileCountProgress(scans, rscan, updN)
    /\ UNCHANGED <<disk, files, ledger, claimVars, hashVars, orchVars, utilVars, runVars,
                   queueVars, walkVars, chanVars, closerPc, writeVars, emitted,
                   progressDone, updN>>

\* The select took ctx.Done() or the closed progressDone: return.
UpdaterExit ==
    /\ updPc = "select" /\ (cancelled \/ progressDone)
    /\ updPc' = "exited"
    /\ UNCHANGED <<storeVars, claimVars, hashVars, orchVars, utilVars, runVars, queueVars,
                   walkVars, chanVars, closerPc, writeVars, emitted, progressDone, updN>>

InitPipe ==
    /\ InitStore
    /\ scans = [s \in Scans |-> NoScan]
    /\ InitClaimIdle
    /\ InitHashIdle
    /\ InitPipeIdle
    /\ InitOrchIdle

\* A step of one of RunPipeline's goroutines, or its return.
PipeStep ==
    \/ DirQueueTake
    \/ DirQueueCloseOut
    \/ \E k \in Walkers : WalkerSelect(k)
    \/ \E k \in Walkers : WalkerEntry(k)
    \/ \E k \in Walkers : WalkerDirDone(k)
    \/ CloserCloseDirs
    \/ CloserCloseFileChan
    \/ \E x \in Writers : WriterRecv(x)
    \/ \E x \in Writers : WriterClosed(x)
    \/ \E x \in Writers : WriterCtxDone(x)
    \/ RunPipelineReturn

NextPipe ==
    \/ \E s \in Scans, d \in Folders, c \in Configs : RunScanStart(s, d, c, <<>>)
    \/ PipeStep
    \/ RunScanFinish
    \/ CancelScan

SpecPipe == InitPipe /\ [][NextPipe]_vars

\* The pipeline on full trees, with goroutines that can run running: the Go
\* scheduler runs every runnable goroutine, and a caller whose RunPipeline
\* returned nil goes on to UpdateScanCompletedAt.
InitTerminate ==
    /\ disk = [f \in Files |-> IF f <= Len(Objects) THEN f ELSE 1]
    /\ files = [f \in Files |-> NoFile]
    /\ ledger = {}
    /\ scans = [s \in Scans |-> NoScan]
    /\ InitClaimIdle
    /\ InitHashIdle
    /\ InitPipeIdle
    /\ InitOrchIdle

\* The explored configurations and a single walker with a single writer.
TerminateConfigs ==
    Configs \cup {[numWalkers |-> 1, numWriters |-> 1, batchSize |-> BatchSize]}

NextTerminate ==
    \/ \E s \in Scans, d \in Folders, c \in TerminateConfigs : RunScanStart(s, d, c, <<>>)
    \/ PipeStep
    \/ RunScanFinish
    \/ CancelScan

SpecTerminate ==
    /\ InitTerminate /\ [][NextTerminate]_vars
    /\ WF_vars(PipeStep)
    /\ WF_vars(RunScanFinish)

\* One scan at a time on the full trees, with the ticker of the progress
\* updater firing at any moment.
NextProgress ==
    \/ \E s \in Scans, d \in Folders : RunScanStart(s, d, config, <<>>)
    \/ PipeStep
    \/ RunScanFinish
    \/ CancelScan
    \/ UpdaterTick
    \/ UpdaterWrite
    \/ UpdaterExit

SpecProgress == InitTerminate /\ [][NextProgress]_vars

\* Scans of the full trees by callers that pass no options, the options
\* OptionsForRoot builds, or exclude patterns of their own.
ScanOptions(folder) ==
    {<<>>, OptionsForRoot(folder), << <<"g", "*">> >>, << <<"a">>, <<"g">> >>}

InitExclude ==
    /\ disk = [f \in Files |-> IF f <= Len(Objects) THEN f ELSE NULL]
    /\ files = [f \in Files |-> NoFile]
    /\ ledger = {}
    /\ scans = [s \in Scans |-> NoScan]
    /\ InitClaimIdle
    /\ InitHashIdle
    /\ InitPipeIdle
    /\ InitOrchIdle

NextExclude ==
    \/ \E s \in Scans, d \in Folders :
          \E o \in ScanOptions(d) : RunScanStart(s, d, config, o)
    \/ PipeStep
    \/ RunScanFinish
    \/ CancelScan

SpecExclude == InitExclude /\ [][NextExclude]_vars

\* ------------------------------------------------------------ orchestrator
FullyComplete(s) == scans[s].completed_at # NULL /\ scans[s].hash_completed_at # NULL

\* A send on scanQueue that has no default case and a buffer that grows.
TryEnqueue_Unbounded(q, s) == Append(q, s)

\* Non-blocking send on scanQueue (select with default).
TryEnqueue(q, s) == IF Len(q) < QueueCap THEN Append(q, s) ELSE q

\* The response after the select: the redirect to the scan's page when the id
\* was queued, "scan queue is full, try again later" (503) from the default case.
StatusSeeOther == 303
StatusServiceUnavailable == 503
EnqueueStatus(q) == IF Len(q) < QueueCap THEN StatusSeeOther ELSE StatusServiceUnavailable

\* handleScansStart: CreateScan, then the non-blocking enqueue of the new id
\* (503 when the queue is full; the row stays).
handleScansStart(folder) ==
    /\ requests < MaxRequests
    /\ requests' = requests + 1
    /\ \E s \in Scans :
        /\ ~scans[s].exists
        /\ \A u \in Scans : u < s => scans[u].exists
        /\ scans' = CreateScan(scans, s, folder)
        /\ scanQueue' = TryEnqueue(scanQueue, s)
        /\ httpStatus' = EnqueueStatus(scanQueue)
    /\ UNCHANGED <<disk, files, ledger, claimVars, hashVars, pipeVars, opc, ocur, stale, utilVars>>

\* handleScanContinue: nothing for a fully complete scan; otherwise
\* ResetHashStatusHashingToPending and the non-blocking enqueue.
handleScanContinue(s) ==
    /\ requests < MaxRequests
    /\ requests' = requests + 1
    /\ scans[s].exists
    /\ ~FullyComplete(s)
    /\ files' = ResetHashStatusHashingToPending(files, ledger, s)
    /\ scanQueue' = TryEnqueue(scanQueue, s)
    /\ httpStatus' = EnqueueStatus(scanQueue)
    /\ UNCHANGED <<disk, ledger, scans, claimVars, hashVars, pipeVars, opc, ocur, stale, utilVars>>

\* runScanWorker: receive the next scan id from scanQueue.
runScanWorker ==
    /\ opc = "select" /\ scanQueue # <<>>
    /\ ocur' = Head(scanQueue)
    /\ scanQueue' = Tail(scanQueue)
    /\ opc' = "get"
    /\ UNCHANGED <<storeVars, claimVars, hashVars, pipeVars, stale, requests, httpStatus, utilVars>>

\* What the walkers of the pipeline that has returned still have to do when
\* the next pipeline is started: the entries of the directories being listed
\* and the directories waiting in the queue.
Leaked ==
    {[scan |-> rscan, entry |-> Head(walkLeft[k])] :
        k \in {j \in Walkers : walkPc[j] = "list" /\ walkLeft[j] # <<>>}}
    \cup {[scan |-> rscan, entry |-> [kind |-> "dir", id |-> d]] :
            d \in Range(dirs) \cup (IF dirsHeld # 0 THEN {dirsHeld} ELSE {})}

\* GetScan fails, or the call panics and runOneScan's deferred recover() logs
\* the panic; either way runOneScan returns.
OrchOutcomes ==
    DbOutcomes \cup (IF faults + cancels < MaxFaults THEN {"panic"} ELSE {})

\* runOneScan lines 668-684: GetScan (return on error); RunScanForExisting when
\* completed_at is NULL, otherwise straight to RunHashPhase with 6 workers
\* (NWorkers here).
runOneScan ==
    /\ opc = "get"
    /\ \E r \in OrchOutcomes :
        /\ faults' = IF r = "ok" THEN faults ELSE faults + 1
        /\ \/ /\ r # "ok"
              /\ opc' = "select"
              /\ UNCHANGED <<pipeVars, hashOnly, stale>>
           \/ /\ r = "ok" /\ scans[ocur].completed_at = NULL
              /\ RunPipelineBegin(ocur, config, OptionsForRoot(scans[ocur].folder))
              /\ stale' = stale \cup Leaked
              /\ opc' = "scan"
              /\ UNCHANGED hashOnly
           \/ /\ r = "ok" /\ scans[ocur].completed_at # NULL
              /\ RunHashPhaseBegin(ocur, NWorkers)
              /\ opc' = "hash"
              /\ UNCHANGED <<pipeVars, stale>>
    /\ UNCHANGED <<storeVars, claimVars, cancelled, cancels, scanQueue, ocur, requests, httpStatus, utilVars>>

\* A scan worker that stops when a scan failed.
runOneScanScanned_StopOnError ==
    /\ opc = "scan" /\ rpc = "done"
    /\ \/ /\ rres # "nil"
          /\ opc' = "stopped"
          /\ UNCHANGED hashOnly
       \/ /\ rres = "nil"
          /\ RunHashPhaseBegin(ocur, NWorkers)
          /\ opc' = "hash"
    /\ UNCHANGED <<storeVars, claimVars, cancelled, faults, cancels, pipeVars,
                   scanQueue, ocur, stale, requests, httpStatus, utilVars>>

\* runOneScan lines 675-684: RunScanForExisting returned; on an error log and
\* return, otherwise call RunHashPhase.
runOneScanScanned ==
    /\ opc = "scan" /\ rpc = "done"
    /\ \/ /\ rres # "nil"
          /\ opc' = "select"
          /\ UNCHANGED hashOnly
       \/ /\ rres = "nil"
          /\ RunHashPhaseBegin(ocur, NWorkers)
          /\ opc' = "hash"
    /\ UNCHANGED <<storeVars, claimVars, cancelled, faults, cancels, pipeVars,
                   scanQueue, ocur, stale, requests, httpStatus, utilVars>>

\* runOneScan returns after RunHashPhase, whatever it returned.
runOneScanHashed ==
    /\ opc = "hash" /\ hpc = "returned"
    /\ opc' = "select"
    /\ UNCHANGED <<storeVars, claimVars, hashVars, pipeVars, scanQueue, ocur, stale, requests, httpStatus, utilVars>>

\* A walker left over from a returned pipeline stats its entry.
StaleWalkerEntry ==
    /\ \E w \in stale : stale' = stale \ {w}
    /\ UNCHANGED <<storeVars, claimVars, hashVars, pipeVars, scanQueue, opc, ocur, requests, httpStatus, utilVars>>

\* The server starts with an empty store, one file of the same size in each
\* folder, and a pipeline configuration taken from the environment.
InitOrch ==
    /\ disk = [f \in Files |-> IF f <= 2 THEN f ELSE NULL]
    /\ files = [f \in Files |-> NoFile]
    /\ ledger = {}
    /\ scans = [s \in Scans |-> NoScan]
    /\ InitClaimIdle
    /\ InitHashIdle
    /\ rpc = "idle" /\ rscan = 0 /\ rres = "none"
    /\ config \in Configs
    /\ patterns = <<>>
    /\ dirs = <<>> /\ dirsClosed = FALSE /\ dirsHeld = 0 /\ outChanClosed = FALSE
    /\ wg = 0
    /\ walkPc = [k \in Walkers |-> "exited"]
    /\ walkLeft = [k \in Walkers |-> <<>>]
    /\ pushed = [d \in Dirs |-> 0] /\ listed = [d \in Dirs |-> 0]
    /\ walkErr = "none"
    /\ fileChan = <<>> /\ fileChanClosed = FALSE
    /\ closerPc = "done"
    /\ writPc = [x \in Writers |-> "exited"]
    /\ batch = [x \in Writers |-> <<>>]
    /\ writerDone = <<>>
    /\ filesWritten = 0
    /\ emitted = {}
    /\ progressDone = FALSE /\ updPc = "off" /\ updN = 0
    /\ InitOrchIdle

\* A step of the scan worker or of the scan or hash phase it is running.
ScanStep ==
    \/ runScanWorker
    \/ runOneScan
    \/ runOneScanScanned
    \/ runOneScanHashed
    \/ DirQueueTake
    \/ DirQueueCloseOut
    \/ \E k \in Walkers : WalkerSelect(k)
    \/ \E k \in Walkers : WalkerEntry(k)
    \/ \E k \in Walkers : WalkerDirDone(k)
    \/ CloserCloseDirs
    \/ CloserCloseFileChan
    \/ \E x \in Writers : WriterRecv(x)
    \/ \E x \in Writers : WriterClosed(x)
    \/ RunPipelineReturn
    \/ RunScanFinish
    \/ PhaseStep

NextOrch ==
    \/ \E d \in Folders : handleScansStart(d)
    \/ \E s \in Scans : handleScanContinue(s)
    \/ ScanStep
    \/ StaleWalkerEntry

SpecOrch == InitOrch /\ [][NextOrch]_vars

\* ------------------------------------------------- crash and the next run
\* A worker of a hash phase that pulls its jobs with ClaimNextHashJob: it
\* claims for a scanned scan whose hash phase is not complete, while no
\* RunHashPhase call is in progress in the process.
ClaimWorker(w, s) ==
    /\ hpc \in {"idle", "returned"}
    /\ scans[s].completed_at # NULL /\ scans[s].hash_completed_at = NULL
    /\ ClaimNextHashJob(w, s)

\* The process dies: its goroutines and the jobs they hold are gone, the
\* store keeps every row as it is.
Crash ==
    /\ crashes < MaxCrashes
    /\ (\E w \in Workers : held[w] # NULL) \/ hpc \notin {"idle", "returned"}
    /\ crashes' = crashes + 1
    /\ held' = [w \in Workers |-> NULL]
    /\ hpc' = "idle" /\ hscan' = 0 /\ hres' = "none" /\ hcount' = 0 /\ nw' = 0
    /\ cancelled' = FALSE
    /\ ppc' = "off" /\ prows' = <<>> /\ jobs' = <<>> /\ jobsClosed' = FALSE
    /\ errCh' = <<>>
    /\ wpc' = [w \in Workers |-> "off"]
    /\ wjob' = [w \in Workers |-> NoJob]
    /\ wh' = [w \in Workers |-> NULL]
    /\ wreused' = [w \in Workers |-> FALSE]
    /\ werr' = [w \in Workers |-> "none"]
    /\ reusedCount' = 0 /\ hashErrorCount' = 0
    /\ opens' = [f \in Files |-> 0] /\ failedJobs' = {}
    /\ openedBefore' = openedBefore \cup {f \in Files : opens[f] > 0}
    /\ updated' = [f \in Files |-> 0]
    /\ UNCHANGED <<storeVars, claimed, resets, faults, cancels, pipeVars, orchVars, utilVars>>

\* The next run: RunHashPhase is called when no claim caller is alive.
Resume(s, n) ==
    /\ \A w \in Workers : held[w] = NULL
    /\ RunHashPhase(s, n)

\* Folder 1 holds files of one size and different content.
InitRecover ==
    /\ disk = [f \in Files |-> IF f = 1 THEN 1 ELSE IF f % 2 = 1 THEN 2 ELSE NULL]
    /\ files = [f \in Files |-> NoFile]
    /\ ledger = {}
    /\ scans = [s \in Scans |-> NoScan]
    /\ InitClaimIdle
    /\ InitHashIdle
    /\ InitPipeIdle
    /\ InitOrchIdle

\* One scan of folder 1; its hash phase runs with the default single worker.
NextRecover ==
    \/ RunScan(1, 1)
    \/ \E w \in Workers, s \in Scans : ClaimWorker(w, s)
    \/ \E w \in Workers : ClaimerDone(w)
    \/ \E w \in Workers : ClaimerFail(w)
    \/ Crash
    \/ \E s \in Scans : Resume(s, 1)
    \/ PhaseStep
    \/ Cancel

\* Goroutines that can run do run, a live claim caller finishes its job, and
\* after a failure or a crash RunHashPhase is called again.
SpecRecover ==
    /\ InitRecover /\ [][NextRecover]_vars
    /\ WF_vars(PhaseStep)
    /\ WF_vars(\E w \in Workers : ClaimerDone(w))
    /\ WF_vars(\E s \in Scans : Resume(s, 1))

\* Folder 1 holds three files of one size (two of them hardlinks), so that a
\* phase has more rows than one worker and the jobs channel take.
InitProducer ==
    /\ disk = [f \in Files |-> IF f = 2 THEN NULL ELSE IF f = 3 THEN 2 ELSE 1]
    /\ files = [f \in Files |-> NoFile]
    /\ ledger = {}
    /\ scans = [s \in Scans |-> NoScan]
    /\ InitClaimIdle
    /\ InitHashIdle
    /\ InitPipeIdle
    /\ InitOrchIdle

NextProducer ==
    \/ \E s \in Scans : RunScan(s, 1)
    \/ \E s \in Scans, n \in 1..NWorkers : RunHashPhase(s, n)
    \/ PhaseStep
    \/ Cancel

SpecProducer == InitProducer /\ [][NextProducer]_vars

\* The file at path f is replaced between two operations: the next walk's
\* Lstat reports another object's size and inode for the same path.
ModifyFile(f, o) ==
    /\ hpc \in {"idle", "returned"}
    /\ disk[f] # NULL /\ disk[f] # o
    /\ disk' = [disk EXCEPT ![f] = o]
    /\ UNCHANGED <<pipeVars, orchVars, utilVars, files, ledger, scans, claimVars, hashVars>>

\* Folder 1 holds two files; their content may change between scans.
InitRescan ==
    /\ disk \in {d \in [Files -> Objs \cup {NULL}] :
                    d[1] # NULL /\ d[2] = NULL /\ d[3] # NULL /\ d[NFiles] = NULL}
    /\ files = [f \in Files |-> NoFile]
    /\ ledger = {}
    /\ scans = [s \in Scans |-> NoScan]
    /\ InitClaimIdle
    /\ InitHashIdle
    /\ InitPipeIdle
    /\ InitOrchIdle

NextRescan ==
    \/ \E s \in Scans : RunScan(s, 1)
    \/ \E s \in Scans : RunHashPhase(s, 1)
    \/ PhaseStep
    \/ \E f \in Files, o \in Objs : ModifyFile(f, o)

SpecRescan == InitRescan /\ [][NextRescan]_vars

\* ---------------------------------------------------------------- claims

Candidates(s) ==
    {f \in InScan(ledger, s) : files[f].size \in sizeCandidateSubquery(files, ledger, s)}

\* Another file row g carries a digest and f's recorded (inode, device, size).
DigestedTwin(f, g) ==
    /\ g # f /\ files[g].exists /\ files[g].hash # NULL
    /\ files[g].inode = files[f].inode /\ files[g].dev = files[f].dev
    /\ files[g].size = files[f].size

\* C2: when hashing one file fails in RunHashPhase (the open or read fails),
\* the worker goes on with the next job, so once the phase has returned every
\* other candidate of the scan has been processed (is done).
C2_OtherCandidatesProcessed ==
    (hpc = "returned" /\ hres = "io")
        => \A f \in Candidates(hscan) : f \in failedJobs \/ files[f].status = "done"

\* The case of C2: a phase returned after HashFile failed on one of two or
\* more candidates.
C2_Witness ==
    /\ hpc = "returned" /\ failedJobs # {} /\ hashErrorCount = 1
    /\ Cardinality(Candidates(hscan)) >= 2
    /\ \A f \in failedJobs : files[f].status = "pending"

\* C3: a per-file error raised by a worker is counted and not returned: the
\* phase (not cancelled, producer without error) returns nil and has written
\* hash_completed_at together with the error count.
C3_WorkerErrorNotReturned ==
    (hpc = "returned" /\ failedJobs # {} /\ ~cancelled)
        => /\ hres = "nil"
           /\ scans[hscan].hash_completed_at # NULL
           /\ scans[hscan].hash_error_count = Cardinality(failedJobs)

\* The case of C3: RunHashPhase returned a worker's per-file error.
C3_Witness ==
    /\ hpc = "returned" /\ failedJobs # {} /\ ~cancelled
    /\ hres = "io" /\ scans[hscan].hash_completed_at = NULL

\* C6: two paths of one folder that share an inode and are candidates of the
\* same phase: whatever the worker count, once the phase has succeeded only one
\* of them was opened, both are done with the same digest and
\* hash_reused_count >= 1.
C6_HardlinkOneOpen ==
    \A f, g \in Files :
        (/\ hpc = "returned" /\ hres = "nil" /\ faults = 0
         /\ f # g /\ {f, g} \subseteq Candidates(hscan)
         /\ disk[f] = disk[g] /\ opens[f] + opens[g] > 0)
        => /\ opens[f] + opens[g] = 1
           /\ files[f].status = "done" /\ files[g].status = "done"
           /\ files[f].hash = files[g].hash
           /\ scans[hscan].hash_reused_count >= 1

\* The case of C6: a phase over a hardlink pair succeeded.
C6_Witness ==
    \E f, g \in Files :
        /\ hpc = "returned" /\ hres = "nil" /\ f # g
        /\ {f, g} \subseteq Candidates(hscan) /\ disk[f] = disk[g]
        /\ files[f].status = "done" /\ files[g].status = "done"
        /\ nw = NWorkers

\* C7: a file whose (inode, device) and size match an existing digested file
\* is not opened (no worker is about to run HashFile on it), and the digest a
\* worker reuses for it is that source's digest.
C7_TwinNotOpened ==
    \A w \in Workers :
        /\ wpc[w] = "hash"
            => ~ \E g \in Files : DigestedTwin(wjob[w].id, g)
        /\ (wpc[w] = "update" /\ wreused[w]
            /\ \E g \in Files : DigestedTwin(wjob[w].id, g))
            => \E g \in Files : DigestedTwin(wjob[w].id, g) /\ files[g].hash = wh[w]

\* The case of C7: a worker reuses a twin's digest without opening the file.
C7_Witness ==
    \E w \in Workers :
        /\ wpc[w] = "update" /\ wreused[w] /\ opens[wjob[w].id] = 0
        /\ \E g \in Files : DigestedTwin(wjob[w].id, g) /\ files[g].hash = wh[w]

\* C8: A in scan 1 and B in scan 2 have equal size and each is size-unique in
\* its own scan; after scan 1, hash 1, scan 2, hash 2 (in this order, both
\* phases successful) both files have digests.
SizeUnique(f, s) ==
    \A g \in InScan(ledger, s) : g # f => files[g].size # files[f].size

InSequence ==
    /\ scans[1].hash_completed_at # NULL
    /\ scans[2].exists
    /\ scans[1].hash_completed_at < scans[2].created_at
    /\ scans[2].hash_completed_at # NULL

C8_CrossScanBothDigested ==
    \A a, b \in Files :
        (/\ InSequence
         /\ a \in InScan(ledger, 1) /\ b \in InScan(ledger, 2) /\ a # b
         /\ files[a].size = files[b].size
         /\ SizeUnique(a, 1) /\ SizeUnique(b, 2))
        => files[a].hash # NULL /\ files[b].hash # NULL

\* The case of C8: the sequence ran and B was hashed as a cross-scan candidate.
C8_Witness ==
    \E a, b \in Files :
        /\ InSequence
        /\ a \in InScan(ledger, 1) /\ b \in InScan(ledger, 2) /\ a # b
        /\ files[a].size = files[b].size
        /\ SizeUnique(a, 1) /\ SizeUnique(b, 2)
        /\ files[b].hash = Digest(disk[b])

\* C4: after a scan S completed (RunPipeline returned success and completed_at
\* was set), every existing file row has a file_scan row for S if and only if
\* a walker emitted the file during S.
C4_LedgerIffEmitted ==
    (rpc = "done" /\ rres = "nil")
        => /\ scans[rscan].completed_at # NULL
           /\ \A f \in Files :
                files[f].exists => (<<f, rscan>> \in ledger <=> f \in emitted)

\* The case of C4: a completed second scan that emitted files through both
\* directories, beside a file row of the other folder that it did not emit.
C4_Witness ==
    /\ rpc = "done" /\ rres = "nil" /\ rscan = 2
    /\ Cardinality(emitted) >= 2
    /\ \E f \in Files : files[f].exists /\ f \notin emitted

\* C5: RunPipeline returns a non-nil error whenever a writer returned an error
\* or the context was cancelled before the walk and all writes had finished:
\* when it has returned nil, no writer result is an error and, if the context
\* is cancelled, every file of the folder is listed and written.
C5_NoSuccessWhenCancelled ==
    rpc = "complete"
        => /\ \A i \in 1..Len(writerDone) : writerDone[i] = "nil"
           /\ cancelled => OnDisk(scans[rscan].folder) \subseteq InScan(ledger, rscan)

\* The case of C5: RunPipeline returned an error after a cancellation.
C5_Witness ==
    /\ rpc = "done" /\ cancelled /\ rres = "Canceled"
    /\ ~ (OnDisk(scans[rscan].folder) \subseteq InScan(ledger, rscan))

\* The scans on whose behalf a goroutine is about to touch the filesystem: a
\* walker with a directory entry to handle (of the current pipeline or left
\* over from a returned one), a hash worker about to read its file.
IoScans ==
    {s \in Scans : /\ rpc # "idle" /\ rscan = s
                   /\ \E k \in Walkers : walkPc[k] = "list" /\ walkLeft[k] # <<>>}
    \cup {w.scan : w \in stale}
    \cup {s \in Scans : hscan = s /\ \E w \in Workers : wpc[w] = "hash"}

\* C9: scans are serialized at the orchestrator: at no time are two scans
\* performing file I/O concurrently, also after a scan's pipeline returned
\* with an error.
C9_OneScanDoesIo == Cardinality(IoScans) <= 1

\* The case of C9: a returned pipeline's walkers are left over while the
\* orchestrator runs the scan phase of another scan.
C9_Witness ==
    /\ opc = "scan" /\ rpc = "run" /\ rres = "none"
    /\ \E w \in stale : w.scan # ocur

\* C10: a dequeued scan id whose row has completed_at and hash_completed_at
\* set is skipped: the hash phase is never started for it.
C10_CompleteScanSkipped ==
    ~ (opc = "hash" /\ hscan = ocur /\ hpc = "reset" /\ FullyComplete(ocur))

\* The case of C10: the orchestrator has dequeued a fully complete scan.
C10_Witness == opc = "get" /\ FullyComplete(ocur)

C12_ResetBeforeDispatch ==
    (crashes > 0 /\ hpc \in {"start", "wait", "count", "complete"})
        => \A f \in InScan(ledger, hscan) : files[f].status # "hashing"

\* The case of C12: after a crash left a claimed row behind, the next run
\* hands that row to a worker.
C12_Witness ==
    /\ crashes > 0 /\ hpc = "wait"
    /\ \E w \in Workers :
        /\ wpc[w] \in {"inode", "prev", "hash", "update"}
        /\ claimed[wjob[w].id] > 0 /\ files[wjob[w].id].status = "pending"

\* A phase that was invoked after an earlier one was cancelled has returned,
\* and no scan was recorded since it started.
Resumed ==
    /\ hpc = "returned" /\ cancels > 0 /\ ~cancelled
    /\ \A s \in Scans : scans[s].exists => scans[s].completed_at < scans[hscan].hash_started_at

\* C13: when a hash phase was cancelled and RunHashPhase is invoked again
\* without cancellation, the phase succeeds with every candidate done and
\* carrying the digest of its own content, and no worker processes a row that
\* is already done.
C13_ResumeCompletes ==
    /\ Resumed => /\ hres = "nil"
                  /\ \A f \in Candidates(hscan) :
                        files[f].status = "done" /\ files[f].hash = Digest(disk[f])
    /\ \A w \in Workers :
        wpc[w] \in {"inode", "prev", "hash", "update"} => files[wjob[w].id].status # "done"

\* The case of C13: the only scan's phase was cancelled with part of the
\* candidates done, and the phase invoked after that succeeded.
C13_Witness ==
    /\ Resumed /\ hres = "nil"
    /\ \A s \in Scans : scans[s].exists => s = hscan
    /\ Cardinality(Candidates(hscan)) >= 2
    /\ \A f \in Candidates(hscan) : files[f].status = "done"
    /\ \E f \in Candidates(hscan) : opens[f] = 0

\* The writers RunPipeline started that have returned.
ReturnedWriters == {x \in Writers : x <= config.numWriters /\ writPc[x] = "exited"}

\* C14: every writer that returned, by failure or panic included, has put one
\* result on the done channel, and while RunPipeline waits after a writer
\* failed, some goroutine of the pipeline can take a step or RunPipeline can
\* return: the failure of one writer blocks neither the others nor the call.
C14_FailedWriterNoDeadlock ==
    rpc = "run" =>
        /\ Len(writerDone) = Cardinality(ReturnedWriters)
        /\ (\E i \in 1..Len(writerDone) : writerDone[i] # "nil") => ENABLED PipeStep

\* The case of C14: RunPipeline returned the panic of one writer while the
\* other writer drained the channel and finished without error.
C14_Witness ==
    /\ rpc = "done" /\ rres = "panic" /\ config.numWriters = 2
    /\ \E i \in 1..Len(writerDone) : writerDone[i] = "nil"
    /\ fileChanClosed /\ fileChan = <<>>

\* The walkers RunPipeline started.
StartedWalkers == {k \in Walkers : k <= config.numWalkers}

\* C15 as stated: the file channel is closed only after the walkers have
\* exited.
C15_WalkersExitBeforeFileChanClose ==
    (rpc # "idle" /\ fileChanClosed) => \A k \in StartedWalkers : walkPc[k] = "exited"

\* C15 as the code has it: the directory queue is closed only when the
\* WaitGroup is zero, its out channel only after that; the file channel is
\* closed after the queue, when no walker is listing a directory (walkers may
\* still be waiting in their select); a walker exits without cancellation only
\* on the closed out channel; a writer reports success only after the file
\* channel is closed and drained.
C15_ShutdownOrder ==
    rpc # "idle" =>
        /\ dirsClosed => wg = 0 /\ dirs = <<>> /\ dirsHeld = 0
        /\ outChanClosed => dirsClosed
        /\ fileChanClosed => dirsClosed /\ \A k \in StartedWalkers : walkPc[k] # "list"
        /\ \A k \in StartedWalkers :
            (walkPc[k] = "exited" /\ ~cancelled) => outChanClosed
        /\ (\E i \in 1..Len(writerDone) : writerDone[i] = "nil")
            => fileChanClosed /\ fileChan = <<>>

\* The case of C15: the file channel is closed while a walker has not yet
\* seen the closed queue, and a writer has drained and exited.
C15_Witness ==
    /\ rpc = "run" /\ ~cancelled /\ fileChanClosed /\ emitted # {}
    /\ \E k \in StartedWalkers : walkPc[k] = "select"
    /\ \E i \in 1..Len(writerDone) : writerDone[i] = "nil"

\* C16: when RunPipeline has returned, with success or with an error, every
\* writer it started has returned.
C16_ReturnAfterWriters ==
    rpc \in {"complete", "done"}
        => \A x \in Writers : x <= config.numWriters => writPc[x] = "exited"

\* The case of C16: one writer failed, the other went on to the end, and
\* RunPipeline returned the error after both.
C16_Witness ==
    /\ rpc = "done" /\ rres \in {"upsert", "link"} /\ config.numWriters = 2
    /\ \E i \in 1..Len(writerDone) : writerDone[i] = "nil"

RECURSIVE Total(_, _)
Total(cnt, S) == IF S = {} THEN 0
                 ELSE LET d == CHOOSE x \in S : TRUE IN cnt[d] + Total(cnt, S \ {d})

\* The walkers that are listing a directory.
Listing == {k \in StartedWalkers : walkPc[k] = "list"}

\* C17: the root is enqueued once, before any walker has received a
\* directory; the WaitGroup counter is the number of directories pushed minus
\* the number whose listing is over, which is the number of directories
\* queued, held for delivery or being listed; so it is zero only when no
\* directory is queued or being listed.
C17_WaitGroupCounts ==
    rpc # "idle" =>
        /\ pushed[1] = 1
        /\ wg = Total(pushed, Dirs) - (Total(listed, Dirs) - Cardinality(Listing))
        /\ wg = Len(dirs) + (IF dirsHeld # 0 THEN 1 ELSE 0) + Cardinality(Listing)

\* The case of C17: every directory of the tree was pushed and listed and the
\* counter is back at zero.
C17_Witness ==
    /\ rpc = "run" /\ wg = 0 /\ ~cancelled
    /\ Total(pushed, Dirs) = NDirs /\ Total(listed, Dirs) = NDirs

\* C18: a directory is in one place at a time (the queue's slice, the queue's
\* send, or one walker), it is received at most once, and when the counter is
\* back at zero every pushed directory was received exactly once.
C18_OneWalkerPerDir ==
    rpc # "idle" =>
        /\ Len(dirs) = Cardinality(Range(dirs)) /\ dirsHeld \notin Range(dirs)
        /\ \A d \in Dirs : listed[d] <= pushed[d] /\ listed[d] <= 1
        /\ \A d \in (Range(dirs) \cup {dirsHeld}) \ {0} : listed[d] = 0
        /\ wg = 0 => listed = pushed

\* The case of C18: two walkers are listing two different directories.
C18_Witness ==
    /\ rpc = "run" /\ Cardinality(Listing) = 2
    /\ \A d \in Dirs : listed[d] = 1

\* C19: a directory-listing or stat error that is not a permission error is
\* reported: once a walker got such an error, RunPipeline does not return nil
\* and the scan does not complete successfully.
C19_WalkErrorReturned ==
    walkErr # "none" => rpc # "complete" /\ ~ (rpc = "done" /\ rres = "nil")

\* The case of C19: a walker's listing or stat failed and the scan built on
\* the pipeline was completed with completed_at set.
C19_Witness ==
    /\ walkErr = "io" /\ ~cancelled
    /\ rpc = "done" /\ rres = "nil" /\ scans[rscan].completed_at # NULL
    /\ ~ (OnDisk(scans[rscan].folder) \subseteq InScan(ledger, rscan))

\* C20: the scan worker is never stopped or blocked by a scan's failure: it is
\* always in its loop (waiting for an id, or inside runOneScan), and whenever
\* an id is queued while it waits, or the call it made inside runOneScan has
\* returned, with an error or without, its next step can be taken.
C20_WorkerGoesOn ==
    /\ opc \in {"select", "get", "scan", "hash"}
    /\ (opc = "select" /\ scanQueue # <<>>) => ENABLED runScanWorker
    /\ opc = "get" => ENABLED runOneScan
    /\ (opc = "scan" /\ rpc = "done") => ENABLED runOneScanScanned
    /\ (opc = "hash" /\ hpc = "returned") => ENABLED runOneScanHashed

\* The case of C20: scan 1 failed (an error or a panic) and scan 2, queued
\* behind it, is being run.
C20_Witness ==
    /\ faults > 0 /\ ocur = 2 /\ opc \in {"scan", "hash"}
    /\ scans[1].exists /\ ~FullyComplete(1)
    /\ \A i \in 1..Len(scanQueue) : scanQueue[i] # 1

\* C21: a start or continue request is answered in one step whatever the queue
\* holds (the handler is enabled also when the queue is full), and when the
\* queue already holds QueueCap ids the answer is 503 "try again later" and
\* the queue is left as it was.
C21_EnqueueNeverBlocks ==
    /\ [](requests < MaxRequests =>
            \A s \in Scans : (scans[s].exists /\ ~FullyComplete(s))
                                => ENABLED handleScanContinue(s))
    /\ [](requests < MaxRequests /\ (\E s \in Scans : ~scans[s].exists)
            => ENABLED (\E d \in Folders : handleScansStart(d)))
    /\ [][requests' # requests =>
            /\ Len(scanQueue) >= QueueCap
                => httpStatus' = StatusServiceUnavailable /\ scanQueue' = scanQueue
            /\ Len(scanQueue) < QueueCap => httpStatus' = StatusSeeOther]_vars
    /\ [](Len(scanQueue) <= QueueCap)

\* The case of C21: a request met a full queue and was answered 503.
C21_Witness ==
    /\ httpStatus = StatusServiceUnavailable
    /\ Len(scanQueue) = QueueCap
    /\ opc # "select"

\* C22: the same unchanged tree was scanned twice, each scan followed by its
\* hash phase, without failures or cancellation.  Then the folder has exactly
\* one File row per path on disk, each of them has the FileScan rows of both
\* scans, and HashFile opened each file at most once over both phases.
ScannedTwice ==
    /\ InSequence
    /\ scans[1].folder = scans[2].folder
    /\ faults = 0 /\ cancels = 0

TimesOpened(f) == opens[f] + (IF f \in openedBefore THEN 1 ELSE 0)

C22_RescanIdempotent ==
    /\ ScannedTwice =>
            \A f \in Files :
                /\ folderOf(f) = scans[1].folder
                     => (files[f].exists <=> f \in OnDisk(scans[1].folder))
                /\ f \in OnDisk(scans[1].folder)
                     => <<f, 1>> \in ledger /\ <<f, 2>> \in ledger
                /\ f \notin OnDisk(scans[1].folder)
                     => <<f, 1>> \notin ledger /\ <<f, 2>> \notin ledger
    /\ (/\ scans[1].hash_completed_at # NULL /\ scans[2].exists
        /\ scans[1].hash_completed_at < scans[2].created_at
        /\ scans[1].folder = scans[2].folder
        /\ faults = 0 /\ cancels = 0)
            => \A f \in Files : TimesOpened(f) <= 1

\* The case of C22: both runs are over; two files of one size were digested
\* in the first phase and left alone by the second.
C22_Witness ==
    /\ ScannedTwice
    /\ hpc = "returned" /\ hscan = 2
    /\ \E f, g \in OnDisk(scans[1].folder) :
        /\ f # g
        /\ f \in openedBefore /\ opens[f] = 0 /\ files[f].hash = Digest(disk[f])
        /\ g \in openedBefore /\ opens[g] = 0 /\ files[g].hash = Digest(disk[g])

C24_DigestKept ==
    [][\A f \in Files :
        (/\ files[f].exists /\ files[f].status = "done" /\ files[f].hash # NULL
         /\ files'[f].size = files[f].size
         /\ files'[f].inode = files[f].inode
         /\ files'[f].dev = files[f].dev)
        => files'[f].hash = files[f].hash /\ files'[f].status = "done"]_vars

\* The case of C24: a file digested by the first phase was upserted again by
\* the second scan, whose hash phase has run, and still has its digest.
C24_Witness ==
    /\ InSequence /\ hscan = 2 /\ hpc = "returned"
    /\ \E f \in InScan(ledger, 1) \cap InScan(ledger, 2) :
        /\ f \in openedBefore
        /\ files[f].status = "done" /\ files[f].hash = Digest(disk[f])
    /\ \E g \in InScan(ledger, 2) : opens[g] > 0

\* C25: while the store holds a single scan, a file whose size is unique in the
\* scan is never dispatched to a worker, stays pending without a digest
\* through the scan's hash phase, and is not counted in hashed_file_count.
Dispatched ==
    {prows[i].id : i \in 1..Len(prows)} \cup {jobs[i].id : i \in 1..Len(jobs)}
    \cup {wjob[w].id : w \in Workers}

SingleScan == scans[1].exists /\ \A s \in Scans : s # 1 => ~scans[s].exists

C25_UniqueSizeNotHashed ==
    SingleScan =>
        /\ \A f \in InScan(ledger, 1) :
              SizeUnique(f, 1) =>
                /\ files[f].status = "pending" /\ files[f].hash = NULL
                /\ f \notin Dispatched /\ opens[f] = 0
        /\ scans[1].hash_completed_at # NULL =>
              scans[1].hashed_file_count =
                Cardinality({f \in InScan(ledger, 1) :
                                ~SizeUnique(f, 1) /\ files[f].status = "done"})

\* The case of C25: the only scan holds two files of different sizes; its
\* phase succeeded and counted 0.
C25_Witness ==
    /\ SingleScan /\ hpc = "returned" /\ hres = "nil"
    /\ scans[1].hash_completed_at # NULL
    /\ \E f \in InScan(ledger, 1) : SizeUnique(f, 1)
    /\ Cardinality(InScan(ledger, 1)) = 2
    /\ scans[1].hashed_file_count = 0

\* C26: during and after a scan, a directory whose path matches a pattern was
\* never pushed to the queue nor listed, nor was any directory below it; no
\* file in or below such a directory, and no file whose own path matches a
\* pattern, was sent on fileChan or written to the scan's ledger.
ExcludedDirs ==
    {d \in Dirs : \E c \in 2..d :
        ShouldExclude(DirPath(scans[rscan].folder, c), patterns)}

ExcludedFiles ==
    {f \in Files :
        \/ (IF f <= 2 THEN 1 ELSE NDirs) \in ExcludedDirs
        \/ ShouldExclude(FullPath(scans[rscan].folder, [kind |-> "file", id |-> f]),
                         patterns)}

C26_ExcludedNeverWalked ==
    rpc # "idle" =>
        /\ \A d \in ExcludedDirs :
              /\ pushed[d] = 0 /\ listed[d] = 0
              /\ d # dirsHeld /\ \A i \in 1..Len(dirs) : dirs[i] # d
        /\ \A f \in ExcludedFiles :
              /\ f \notin emitted
              /\ <<f, rscan>> \notin ledger
              /\ \A i \in 1..Len(fileChan) : fileChan[i] # f

\* The case of C26: a scan of folder 1 with the caller's glob g* completed; the
\* file beside the excluded directory g is in the ledger, the file below it
\* is on disk and is not.
C26_Witness ==
    /\ rpc = "done" /\ rres = "nil" /\ scans[rscan].folder = 1
    /\ patterns = << <<"g", "*">> >>
    /\ 2 \in ExcludedDirs
    /\ <<1, rscan>> \in ledger
    /\ disk[3] # NULL /\ 3 \in ExcludedFiles
    /\ ~ShouldExclude(FullPath(1, [kind |-> "file", id |-> 3]), patterns)

\* C27: the patterns a running or finished scan applies include every default
\* pattern and every pattern of the root's ignore file, whatever options the
\* caller passed.
C27_DefaultsAlwaysActive ==
    rpc # "idle" =>
        \A p \in Range(DefaultExcludePatterns)
                \cup Range(LoadExcludeFile(scans[rscan].folder)) :
            p \in Range(patterns)

\* The case of C27: a caller passed exclude patterns of its own for folder 2,
\* and the directory d, which the default list names, was listed.
C27_Witness ==
    /\ rpc # "idle" /\ scans[rscan].folder = 2
    /\ patterns = << <<"a">>, <<"g">> >>
    /\ ShouldExclude(DirPath(2, 2), DefaultExcludePatterns)
    /\ listed[2] > 0

\* C28: for one pattern without '*' or '?', ShouldExclude returns true exactly
\* when the pattern is a complete component of the normalized path (the
\* characters between two slashes, or between a slash and an end of the path).
Components(s) ==
    {SubSeq(s, x[1], x[2]) :
        x \in {y \in (1..Len(s)) \X (1..Len(s)) :
                /\ y[1] <= y[2]
                /\ \A i \in y[1]..y[2] : s[i] # "/"
                /\ y[1] = 1 \/ s[y[1] - 1] = "/"
                /\ y[2] = Len(s) \/ s[y[2] + 1] = "/"}}

SegmentCall ==
    /\ excl.called /\ Len(excl.patterns) = 1
    /\ \A i \in 1..Len(excl.patterns[1]) : excl.patterns[1][i] \notin {"*", "?"}

C28_SegmentIffComponent ==
    SegmentCall =>
        (excl.result <=> excl.patterns[1] \in Components(ToSlash(excl.path)))

\* The case of C28: the pattern g and the relative path g/i, whose first
\* component is g; ShouldExclude returned false.
C28_Witness ==
    /\ SegmentCall
    /\ excl.patterns = << <<"g">> >>
    /\ excl.path = <<"g", "/", "i">>
    /\ ~excl.result

\* C29: fn is called at most maxAttempts times; once a call returned nil the
\* function has returned nil; an error that is not a busy error is returned
\* at once and never retried; and a busy error is returned only when
\* maxAttempts calls were made and every one of them was busy.
C29_BoundedBusyRetry ==
    /\ retry.pc # "idle" =>
        /\ retry.calls <= retry.maxAttempts
        /\ (retry.calls > 0 /\ retry.lastErr = "nil")
              => retry.pc = "returned" /\ retry.ret = "nil"
        /\ (retry.calls > 0 /\ retry.lastErr = "other")
              => retry.pc = "returned" /\ retry.ret = "other" /\ retry.busy = retry.calls - 1
        /\ (retry.pc = "returned" /\ IsBusy(retry.ret))
              => retry.calls = retry.maxAttempts /\ retry.busy = retry.maxAttempts
        /\ retry.pc = "sleep" => IsBusy(retry.lastErr)

\* The case of C29: three attempts were all busy and the busy error was
\* returned after two waits.
C29_Witness ==
    /\ retry.pc = "returned" /\ IsBusy(retry.ret)
    /\ retry.maxAttempts = MaxAttempts /\ retry.calls = MaxAttempts
    /\ retry.busyRetryCount = MaxAttempts - 1

\* Where file f is in the current phase: rows the producer has not sent, jobs
\* in the channel, jobs a worker is processing.
InFlight(f) ==
    Cardinality({i \in 1..Len(prows) : prows[i].id = f})
    + Cardinality({i \in 1..Len(jobs) : jobs[i].id = f})
    + Cardinality({w \in Workers : wjob[w] # NoJob /\ wjob[w].id = f})

\* A phase without errors whose producer has read its rows, up to the next
\* scan.
CleanPhase ==
    /\ faults = 0 /\ cancels = 0
    /\ hpc \in {"wait", "count", "complete", "returned"}
    /\ ppc \in {"send", "done"}
    /\ \A t \in Scans : scans[t].exists => scans[t].created_at < scans[hscan].hash_started_at

\* C30: in a hash phase without errors, with any number of workers, every
\* candidate of the scan is on its way to exactly one worker or with exactly
\* one worker until UpdateFileHash is applied to it, which happens exactly
\* once; when the phase has returned every candidate is done with a digest.
C30_EachCandidateOnce ==
    CleanPhase =>
        /\ \A f \in Files : updated[f] <= 1
        /\ \A f \in Candidates(hscan) :
            /\ files[f].status = "pending" => InFlight(f) = 1 /\ updated[f] = 0
            /\ files[f].status = "done" => InFlight(f) = 0 /\ files[f].hash # NULL
            /\ files[f].status \in {"pending", "done"}
        /\ \A f \in Files : updated[f] = 1 => f \in Candidates(hscan) /\ files[f].status = "done"
        /\ hpc = "returned" =>
            /\ hres = "nil"
            /\ \A f \in Candidates(hscan) : files[f].status = "done" /\ files[f].hash # NULL

\* The case of C30: a phase with two workers returned without an error after
\* each of two candidates was opened once and written once.
C30_Witness ==
    /\ CleanPhase /\ hpc = "returned" /\ nw = 2
    /\ \E f, g \in Candidates(hscan) :
        /\ f # g /\ updated[f] = 1 /\ updated[g] = 1
        /\ opens[f] = 1 /\ opens[g] = 1
        /\ files[f].hash # NULL /\ files[g].hash # NULL

CleanRun == rpc = "run" /\ faults = 0 /\ cancels = 0

\* C32: a run of RunPipeline over a finite tree, with any explored number of
\* walkers and writers, returns nil unless a store or filesystem call fails
\* or the context is cancelled: no walker waits for room in the directory
\* queue, and a walker waiting on the file channel is released by a writer.
C32_PipelineReturns ==
    CleanRun ~> ((rpc = "complete" /\ rres = "nil") \/ faults > 0 \/ cancels > 0)

\* The case of C32: a clean run returned nil after its only walker pushed the
\* subdirectory and every file of the folder went through the file channel.
C32_Witness ==
    /\ rpc = "complete" /\ rres = "nil" /\ faults = 0 /\ cancels = 0
    /\ config.numWalkers = 1
    /\ pushed[NDirs] = 1 /\ listed[NDirs] = 1
    /\ Cardinality(emitted) = 3 /\ emitted = OnDisk(scans[rscan].folder)

\* RunPipeline has returned to its caller.
Returned == rpc \in {"complete", "done"}

\* C33: once RunPipeline has returned, the progress updater makes no further
\* call of UpdateScanFileCountProgress, and so the file_count the caller
\* writes with UpdateScanCompletedAt stays.
C33_NoProgressWriteAfterReturn ==
    [][(Returned /\ updPc = "write") => updPc' = "write"]_vars

\* The case of C33: the updater wrote a count it had loaded earlier after
\* the caller completed the scan, and the scan row now shows fewer files
\* than the pipeline wrote.
C33_Witness ==
    /\ rpc = "done" /\ rres = "nil" /\ scans[rscan].completed_at # NULL
    /\ updPc \in {"select", "exited"} /\ ~cancelled
    /\ scans[rscan].file_count < filesWritten

\* C34: after close(fileChan) no walker sends on fileChan, in any
\* interleaving of the walkers, the closer, the writers and a cancellation:
\* while it is closed no walker is inside processOneDir and nothing is added
\* to the channel.
C34_NoSendOnClosedFileChan ==
    [][fileChanClosed =>
          /\ \A k \in Walkers : walkPc[k] # "list"
          /\ (fileChanClosed' => Len(fileChan') <= Len(fileChan) /\ emitted' \subseteq emitted)]_vars

\* The case of C34: the closer closed fileChan while both walkers were still
\* running, after files of both directories were sent.
C34_Witness ==
    /\ rpc = "run" /\ fileChanClosed /\ config.numWalkers = 2
    /\ \A k \in Walkers : walkPc[k] = "select"
    /\ Cardinality(emitted) = 2 /\ fileChan # <<>>

\* The producer waits to send a row on the full jobs channel, every worker
\* has returned and the context is not done: nothing will let it go on.
ProducerBlocked ==
    /\ ppc = "send" /\ prows # <<>> /\ Len(jobs) >= JobChanCap
    /\ ~cancelled
    /\ \A w \in Workers : wpc[w] \in {"off", "exited"}

\* C35: when RunHashPhase has returned, its producer goroutine has ended or
\* will end; it is not left waiting for ever to send on the jobs channel.
C35_ProducerEnds == hpc = "returned" => ~ProducerBlocked

\* The case of C35: the only worker returned after a failed read, the phase
\* returned that error, the context is live, and the producer holds a row it
\* cannot send.
C35_Witness ==
    /\ hpc = "returned" /\ hres = "io" /\ nw = 1
    /\ ProducerBlocked /\ ~jobsClosed
    /\ Len(prows) + Len(jobs) = Cardinality(Candidates(hscan)) - 1

\* Every walker has returned, the closer has run to its end and dirQueue.run
\* has closed its output channel and returned.
AllTerminated ==
    /\ \A k \in Walkers : walkPc[k] = "exited"
    /\ closerPc = "done"
    /\ outChanClosed

\* C36: after RunPipeline returned an error, every walker, the closer and the
\* directory queue's goroutine eventually terminate.
C36_GoroutinesEnd ==
    (rpc = "done" /\ rres \notin {"nil", "none"}) ~> AllTerminated

\* The case of C36: RunPipeline returned a writer's error under a live
\* context; a walker waits to send on the full file channel that no writer
\* reads, the closer waits for the WaitGroup, and no goroutine can step.
C36_Witness ==
    /\ rpc = "done" /\ rres \in FlushFailures /\ ~cancelled
    /\ \A x \in Writers : writPc[x] = "exited"
    /\ \E k \in Walkers : walkPc[k] = "list" /\ walkLeft[k] # <<>>
    /\ Len(fileChan) = FileChanCap /\ closerPc = "wait" /\ wg > 0
    /\ ~ENABLED PipeStep

\* C37: a digest on a file row is the digest of that file's own content:
\* reuse by inode never hands a file the digest of a different underlying
\* file, not between files whose inode was recorded as 0 and not from a
\* same-scan row of a different size.
C37_DigestIsOwn ==
    \A f \in Files :
        (files[f].exists /\ files[f].hash # NULL) => files[f].hash = Digest(disk[f])

\* The case of C37: a row whose inode was recorded as 0 carries the digest of
\* another row of the same scan with inode 0 and a different size, taken
\* without opening the file.
C37_Witness ==
    \E f, g \in InScan(ledger, hscan) :
        /\ f # g /\ disk[f] # disk[g]
        /\ files[f].inode = 0 /\ files[g].inode = 0
        /\ files[f].size # files[g].size
        /\ files[f].status = "done" /\ files[f].hash = Digest(disk[g])
        /\ files[g].hash = Digest(disk[g])
        /\ opens[f] = 0 /\ f \notin openedBefore /\ reusedCount > 0

\* C38: a job the producer dispatched is for a file whose size another File
\* row shares; the file's own entry in another scan's ledger does not make it
\* a candidate.
C38_CandidateHasSizeTwin ==
    \A i \in 1..Len(jobs) :
        \E g \in Files :
            /\ g # jobs[i].id /\ files[g].exists
            /\ files[g].size = files[jobs[i].id].size

\* The rescan of an unchanged folder with two files of different sizes, no
\* file done, has a job in the channel.
C38_Witness ==
    /\ jobs # <<>>
    /\ \E s \in Scans :
        /\ s # hscan /\ scans[s].exists
        /\ scans[s].created_at < scans[hscan].created_at
        /\ scans[s].folder = scans[hscan].folder
        /\ InScan(ledger, s) = InScan(ledger, hscan)
    /\ Cardinality(InScan(ledger, hscan)) = 2
    /\ \A f, g \in Files :
        (files[f].exists /\ files[g].exists /\ f # g)
            => files[f].size # files[g].size /\ files[f].status # "done"


\* C39: when a scan records another size or inode for a file whose status is
\* done, the file is pending again after the scan, so that the following hash
\* phase computes its digest anew.
C39_ChangedFileRehashed ==
    [][\A f \in Files :
        (/\ files[f].exists /\ files[f].status = "done"
         /\ (files'[f].size # files[f].size \/ files'[f].inode # files[f].inode))
            => files'[f].status = "pending"]_vars

\* A file was digested, replaced by an object of another size and rescanned;
\* the hash phase of the rescan completed without opening it and the file is
\* done with the old object's digest.
C39_Witness ==
    /\ hpc = "returned" /\ hres = "nil" /\ faults = 0
    /\ scans[hscan].hash_completed_at # NULL
    /\ \E f \in InScan(ledger, hscan), o \in Objs :
        /\ files[f].status = "done" /\ files[f].hash = Digest(o)
        /\ disk[f] # NULL /\ disk[f] # o
        /\ Objects[o].size # files[f].size
        /\ files[f].size = Objects[disk[f]].size
        /\ opens[f] = 0 /\ updated[f] = 0 /\ f \in openedBefore


\* C40: a scan row created by a start request is in the scan queue when the
\* request ends, so that the scan worker dequeues and runs it; a rejected
\* request leaves no row behind.
C40_CreatedScanQueued ==
    [][\A s \in Scans :
        (~scans[s].exists /\ scans'[s].exists) => s \in Range(scanQueue')]_vars

\* The scan worker is idle with an empty queue after runs without a failure,
\* and a scan row that was never run exists: its start request got 503.
C40_Witness ==
    /\ opc = "select" /\ scanQueue = <<>>
    /\ faults = 0 /\ cancels = 0
    /\ httpStatus = StatusServiceUnavailable
    /\ \E s \in Scans :
        /\ scans[s].exists /\ scans[s].completed_at = NULL
        /\ \A f \in Files : <<f, s>> \notin ledger
        /\ \E u \in Scans : u # s /\ FullyComplete(u)

====
